---- MODULE Spec2Model ----
(***************************************************************************)
(* A model of the key-acquisition engine of the readline library           *)
(* (package core, type Keys): the key stack `buf`, the macro queue         *)
(* `macroKeys`, the matched accumulator, the flags and channels that       *)
(* coordinate a background WaitAvailableKeys with the synchronous ReadKey   *)
(* and GetCursorPos, and the terminal device they read from.               *)
(*                                                                         *)
(* Bytes and runes are integers.  Two threads run: "bg" executes           *)
(* WaitAvailableKeys, "main" executes every other operation of Keys.       *)
(***************************************************************************)
EXTENDS Integers, Sequences, FiniteSets, TLC

(***************************************************************************)
(* Bounds of the model.                                                    *)
(***************************************************************************)
\* Number of reads the device answers in one behaviour.
MaxReads == 2
\* Number of operations thread "main" calls in one behaviour.
MaxCalls == 3

(***************************************************************************)
(* Bytes of the cursor-position response, from the regular expression      *)
(* rxRcvCursorPos = \x1b\[([0-9]+);([0-9]+)R, and of the runes Go uses.     *)
(***************************************************************************)
Esc == 27
LBracket == 91
Semicolon == 59
UpperR == 82
Digit0 == 48
Digit9 == 57
RuneError == 65533
MaxRune == 1114111
SurrogateMin == 55296
SurrogateMax == 57343

IsDigit(b) == Digit0 <= b /\ b <= Digit9

(***************************************************************************)
(* Sequence helpers (Go slices).                                           *)
(***************************************************************************)
\* s[from:] with 1-based index `from`.
Drop(s, from) == SubSeq(s, from, Len(s))
\* s[:n]
Take(s, n) == SubSeq(s, 1, n)

IsPrefixOf(p, s) == Len(p) <= Len(s) /\ Take(s, Len(p)) = p
IsSuffixOf(p, s) == Len(p) <= Len(s) /\ Drop(s, Len(s) - Len(p) + 1) = p

(***************************************************************************)
(* The regular expression rxRcvCursorPos, matched as Go's regexp does       *)
(* (leftmost match, greedy digit runs).                                    *)
(***************************************************************************)
RECURSIVE DigitsEnd(_, _)
\* The first index >= i of s that holds no digit (Len(s) + 1 when none).
DigitsEnd(s, i) ==
  IF i <= Len(s) /\ IsDigit(s[i]) THEN DigitsEnd(s, i + 1) ELSE i

\* The index one past a match of rxRcvCursorPos that starts at i, or 0.
MatchEnd(s, i) ==
  IF ~(i + 1 <= Len(s) /\ s[i] = Esc /\ s[i + 1] = LBracket) THEN 0
  ELSE LET j == DigitsEnd(s, i + 2) IN
       IF ~(j > i + 2 /\ j <= Len(s) /\ s[j] = Semicolon) THEN 0
       ELSE LET k == DigitsEnd(s, j + 1) IN
            IF k > j + 1 /\ k <= Len(s) /\ s[k] = UpperR THEN k + 1 ELSE 0

RECURSIVE FindFrom(_, _)
\* The leftmost match at or after index i: <<start, end>>, or <<0, 0>>.
FindFrom(s, i) ==
  IF i > Len(s) THEN <<0, 0>>
  ELSE IF MatchEnd(s, i) # 0 THEN <<i, MatchEnd(s, i)>>
  ELSE FindFrom(s, i + 1)

RECURSIVE FindAllFrom(_, _)
\* regexp.FindAll(s, -1): the successive non-overlapping matches.
FindAllFrom(s, i) ==
  LET m == FindFrom(s, i) IN
  IF m[1] = 0 THEN <<>>
  ELSE <<SubSeq(s, m[1], m[2] - 1)>> \o FindAllFrom(s, m[2])

RECURSIVE ReplaceAllFrom(_, _)
\* regexp.ReplaceAll(s, nil): s with every match removed.
ReplaceAllFrom(s, i) ==
  LET m == FindFrom(s, i) IN
  IF m[1] = 0 THEN Drop(s, i)
  ELSE SubSeq(s, i, m[1] - 1) \o ReplaceAllFrom(s, m[2])

RECURSIVE Atoi(_)
\* strconv.Atoi on a run of decimal digits.
Atoi(ds) ==
  IF ds = <<>> THEN 0
  ELSE 10 * Atoi(Take(ds, Len(ds) - 1)) + (ds[Len(ds)] - Digit0)

\* The two submatches (row digits, column digits) of a match m.
Submatches(m) ==
  LET j == DigitsEnd(m, 3) IN
  <<SubSeq(m, 3, j - 1), SubSeq(m, j + 1, Len(m) - 1)>>

(***************************************************************************)
(* Go's conversions between bytes, runes and strings.                      *)
(***************************************************************************)
\* byte(r): the low eight bits of a rune.
ToByte(r) == r % 256

\* A rune that string(rune) encodes as itself; any other becomes RuneError.
ValidRune(r) ==
  0 <= r /\ r <= MaxRune /\ ~(SurrogateMin <= r /\ r <= SurrogateMax)

\* []rune(string(keys)) on a slice of runes.
RunesOfRunes(keys) ==
  [i \in 1..Len(keys) |-> IF ValidRune(keys[i]) THEN keys[i] ELSE RuneError]

IsCont(b) == 128 <= b /\ b <= 191

\* The number of bytes of the first UTF-8 sequence of a non-empty byte slice
\* (one- and two-byte forms; the devices of the model deliver no byte >= 224).
FirstRuneLen(bs) ==
  IF 194 <= bs[1] /\ bs[1] <= 223 /\ Len(bs) >= 2 /\ IsCont(bs[2]) THEN 2 ELSE 1

\* The first rune of []rune(string(bs)) for a non-empty byte slice.
FirstRune(bs) ==
  IF bs[1] < 128 THEN bs[1]
  ELSE IF FirstRuneLen(bs) = 2 THEN (bs[1] - 192) * 64 + (bs[2] - 128)
  ELSE RuneError

RECURSIVE RunesOfBytes(_)
\* []rune(string(bs)) on a slice of bytes.
RunesOfBytes(bs) ==
  IF bs = <<>> THEN <<>>
  ELSE <<FirstRune(bs)>> \o RunesOfBytes(Drop(bs, FirstRuneLen(bs) + 1))

(***************************************************************************)
(* The terminal device: what one os.Stdin.Read can answer.                 *)
(***************************************************************************)
\* The cursor-position response ESC [ 2 4 ; 1 0 R.
CursorResponse == <<Esc, LBracket, 50, 52, Semicolon, 49, 48, UpperR>>

\* The chunks a successful read delivers: "a", "bc", a lone response, and
\* user bytes around a response ("ab" ESC[24;10R "cd").
Chunks ==
  { <<97>>, <<98, 99>>, CursorResponse,
    <<97, 98>> \o CursorResponse \o <<99, 100>> }

\* (n, err) of os.Stdin.Read: data with a nil error, a zero-length read with
\* a nil error, end of input, and a read error.
DeviceReads ==
  [data : Chunks, err : {"nil"}]
    \cup [data : {<<>>}, err : {"nil", "EOF", "error"}]

(***************************************************************************)
(* The state: the fields of Keys, the two threads, the device.             *)
(***************************************************************************)
VARIABLES
  buf,        \* Keys.buf: bytes read and waiting to be used ("pending")
  matched,    \* Keys.matched: runes matched against a bind
  matchedLen, \* Keys.matchedLen
  macroKeys,  \* Keys.macroKeys: runes fed by a macro ("macroQueue")
  mustWait,   \* Keys.mustWait
  waiting,    \* Keys.waiting
  reading,    \* Keys.reading
  keysOnce,   \* Keys.keysOnce: a channel identity, 0 for nil
  cursor,     \* Keys.cursor: a channel identity, 0 for nil
  mutex,      \* Keys.mutex: the writer and the set of readers holding it
  pc,         \* where each thread stands in the operation it executes
  wl,         \* locals of WaitAvailableKeys on thread "bg"
  ml,         \* locals of ReadKey / GetCursorPos on thread "main"
  nreads,     \* number of device reads answered so far
  ncalls,     \* number of operations thread "main" has called so far
  ev,         \* the last step taken: operation, arguments, results
  owed,       \* history: the bytes delivered by the device (or pushed
              \* back) and not yet returned by Pop or ReadKey, in order
  pfx,        \* history: pending and prefix at the last MatchedPrefix call
  rl,         \* the Instance that Readline runs on: line, cursor, modes
  ih,         \* the Instance that the interrupt handlers run on
  sh          \* the Shell that the editing commands run on

keyVars == <<buf, matched, matchedLen, macroKeys, mustWait>>
flagVars == <<waiting, reading, keysOnce, cursor, mutex>>
histVars == <<owed, pfx>>
\* The two dispatcher instances, which the operations of Keys never touch.
dispVars == <<rl, ih, sh>>
\* The fields of Keys, its threads and its device, which the dispatcher
\* instances never touch.
engineVars == <<buf, matched, matchedLen, macroKeys, mustWait, waiting,
                reading, keysOnce, cursor, mutex, pc, wl, ml, nreads, ncalls,
                owed, pfx>>
vars == <<buf, matched, matchedLen, macroKeys, mustWait, waiting, reading,
          keysOnce, cursor, mutex, pc, wl, ml, nreads, ncalls, ev, owed,
          pfx, rl, ih, sh>>

NoPrefix == [on |-> FALSE, pre |-> <<>>, b |-> <<>>]
NoLocalsW == [keyBuf |-> <<>>, err |-> "nil", cursor |-> <<>>, ch |-> 0,
              loaded |-> <<>>]
NoLocalsM == [buf |-> <<>>, cursor |-> <<>>, err |-> "nil", loaded |-> <<>>,
              key |-> 0, fromDevice |-> FALSE, direct |-> FALSE,
              added |-> <<>>]

\* The Instance before Readline is called (part_001) and the Instance of
\* the interrupt handlers (interrupt.go) with an empty line.
NoReadline ==
  [pc |-> "idle", line |-> <<>>, pos |-> 0, multiline |-> <<>>,
   multisplit |-> <<>>, skipStdinRead |-> FALSE, modeViMode |-> "vimInsert",
   modeTabCompletion |-> FALSE, modeTabFind |-> FALSE,
   modeAutoFind |-> FALSE, searchMode |-> "HistoryFind", nkeys |-> 0,
   pasted |-> <<>>, results |-> <<>>]
NoInterrupt ==
  [line |-> <<>>, keys |-> <<>>, comp |-> <<>>, completer |-> FALSE,
   nsteps |-> 0]
\* The Shell of the editing commands (part_001) before any command: its
\* line and cursor, the snapshots of its undo history and the number hp of
\* them at or below the state of the line, the hint, the main keymap, how
\* the session stands, and the history of the commands that saved.
NoShell ==
  [line |-> <<>>, pos |-> 0, items |-> <<>>, hp |-> 0, hint |-> FALSE,
   keymap |-> "emacs", done |-> "no", nsteps |-> 0,
   mark |-> -1, ring |-> <<>>, fed |-> <<>>,
   trk |-> [phase |-> "none", orig |-> <<>>, final |-> <<>>, n |-> 0,
            k |-> 0]]

\* The state after construction: the zero value of Keys, nothing read yet.
Init ==
  /\ buf = <<>> /\ matched = <<>> /\ matchedLen = 0 /\ macroKeys = <<>>
  /\ mustWait = FALSE /\ waiting = FALSE /\ reading = FALSE
  /\ keysOnce = 0 /\ cursor = 0
  /\ mutex = [w |-> "none", r |-> {}]
  /\ pc = [bg |-> "idle", main |-> "idle"]
  /\ wl = NoLocalsW /\ ml = NoLocalsM
  /\ nreads = 0 /\ ncalls = 0
  /\ ev = [op |-> "init"]
  /\ owed = <<>>
  /\ pfx = NoPrefix
  /\ rl = NoReadline /\ ih = NoInterrupt /\ sh = NoShell

(***************************************************************************)
(* sync.RWMutex.                                                           *)
(***************************************************************************)
\* Lock() can be taken: no writer and no reader holds the mutex.
CanLock == mutex.w = "none" /\ mutex.r = {}
\* RLock() can be taken: no writer holds the mutex.
CanRLock == mutex.w = "none"
RLocked(t) == [mutex EXCEPT !.r = @ \cup {t}]
\* Mutant: RUnlock leaves the read lock held.
RUnlockedKeepsLock(t) == mutex
RUnlocked(t) == [mutex EXCEPT !.r = @ \ {t}]

\* make(chan []byte): a channel distinct from the live ones in `used`.
MakeChan(used) == CHOOSE c \in 1..3 : c \notin used

(***************************************************************************)
(* The pure parts of the operations of Keys.                               *)
(***************************************************************************)
\* Mutant: the macro queue is not consulted.
WaitReturnsAtOnceNoMacro(b, mw, m) == Len(b) > 0 /\ ~mw

\* The two early returns of WaitAvailableKeys.
WaitReturnsAtOnce(b, mw, m) == (Len(b) > 0 /\ ~mw) \/ Len(m) > 0

\* extractCursorPos: the last response of the chunk, and the chunk with
\* every response removed.
extractCursorPos(keys) ==
  LET all == FindAllFrom(keys, 1) IN
  IF all = <<>> THEN [cursor |-> <<>>, remain |-> keys]
  ELSE [cursor |-> all[Len(all)], remain |-> ReplaceAllFrom(keys, 1)]

\* Mutant: end of input is not told apart from an empty read.
readInputFilteredNoEOF(d) ==
  LET x == extractCursorPos(d.data) IN
  [keys |-> x.remain, err |-> "nil", cursor |-> x.cursor]

\* readInputFiltered after os.Stdin.Read answered d: the keys and error it
\* returns, and the response it sends on Keys.cursor before returning.
readInputFiltered(d) ==
  IF d.err = "EOF" THEN [keys |-> <<>>, err |-> "EOF", cursor |-> <<>>]
  ELSE LET x == extractCursorPos(d.data) IN
       [keys |-> x.remain, err |-> "nil", cursor |-> x.cursor]

\* Mutant: the macro queue is served before the key stack.
PopStackMacroFirst(b, m) ==
  IF Len(m) > 0
    THEN [key |-> ToByte(m[1]), empty |-> FALSE, buf |-> b,
          macroKeys |-> Tail(m)]
  ELSE IF Len(b) > 0
    THEN [key |-> b[1], empty |-> FALSE, buf |-> Tail(b), macroKeys |-> m]
  ELSE [key |-> 0, empty |-> TRUE, buf |-> b, macroKeys |-> m]

\* The switch of Pop, PopKey and PeekKey: the key stack first, then the
\* macro queue.
PopStack(b, m) ==
  IF Len(b) > 0
    THEN [key |-> b[1], empty |-> FALSE, buf |-> Tail(b), macroKeys |-> m]
  ELSE IF Len(m) > 0
    THEN [key |-> ToByte(m[1]), empty |-> FALSE, buf |-> b,
          macroKeys |-> Tail(m)]
  ELSE [key |-> 0, empty |-> TRUE, buf |-> b, macroKeys |-> m]

\* Feed: the macro queue after feeding keys at the beginning or at the end.
FeedQueue(begin, keys, m) ==
  IF begin THEN RunesOfRunes(keys) \o m ELSE m \o RunesOfRunes(keys)

\* Mutant: the flag is computed after the prefix has been pushed back.
PrefixMustWaitAfterPush(prefix, b) == Len(prefix \o b) = 0
\* Mutant: the prefix is appended behind the bytes already there.
PrefixStackAtEnd(prefix, b) == b \o prefix

\* MatchedPrefix: the must-wait flag and the key stack it leaves.
PrefixMustWait(prefix, b) == Len(b) = 0
PrefixStack(prefix, b) == prefix \o b

\* GetCursorPos: the position (x, y) parsed from the first response found in
\* a chunk, or <<-1, -1>> when there is none.
ParseCursor(chunk) ==
  LET m == FindFrom(chunk, 1) IN
  IF m[1] = 0 THEN <<-1, -1>>
  ELSE LET sub == Submatches(SubSeq(chunk, m[1], m[2] - 1)) IN
       <<Atoi(sub[2]), Atoi(sub[1])>>

(***************************************************************************)
(* Inputs of the operations.                                               *)
(***************************************************************************)
\* Feed: no key, "x", "y" followed by U+0141, and an unpaired surrogate.
FeedInputs == { <<>>, <<120>>, <<121, 321>>, <<55296>> }
\* MatchedPrefix: no byte, ESC, and ESC [.
PrefixInputs == { <<>>, <<27>>, <<27, 91>> }
\* MatchedKeys: the matched bytes (none, "a", U+00E9 in UTF-8) ...
MatchedInputs == { <<>>, <<97>>, <<195, 169>> }
\* ... and the bytes to push back (none, "b").
RequeueInputs == { <<>>, <<98>> }

MainIdle == pc.main = "idle"

\* A panic of thread "main" ends the program, thread "bg" included.
Crashed == pc.main = "panic"

\* Thread "main" calls one more operation.
Call == MainIdle /\ ncalls < MaxCalls /\ ncalls' = ncalls + 1

(***************************************************************************)
(* Operations that thread "main" executes in one step.                     *)
(***************************************************************************)
\* Keys.Pop
Pop ==
  /\ Call
  /\ LET r == PopStack(buf, macroKeys) IN
     /\ buf' = r.buf
     /\ macroKeys' = r.macroKeys
     /\ matched' = IF r.empty THEN matched ELSE Append(matched, r.key)
     /\ matchedLen' = IF r.empty THEN matchedLen ELSE matchedLen + 1
     /\ ev' = [op |-> "Pop", key |-> r.key, empty |-> r.empty,
               inOrder |-> (Len(buf) > 0 => IsPrefixOf(<<r.key>>, owed))]
     /\ owed' = IF Len(buf) > 0 /\ IsPrefixOf(<<r.key>>, owed)
                 THEN Tail(owed) ELSE owed
  /\ pfx' = NoPrefix
  /\ UNCHANGED <<mustWait, flagVars, pc, wl, ml, nreads>>
  /\ UNCHANGED dispVars

\* PopKey
PopKey ==
  /\ Call
  /\ LET r == PopStack(buf, macroKeys) IN
     /\ buf' = r.buf
     /\ macroKeys' = r.macroKeys
     /\ ev' = [op |-> "PopKey", key |-> r.key, empty |-> r.empty,
               inOrder |-> (Len(buf) > 0 => IsPrefixOf(<<r.key>>, owed))]
     /\ owed' = IF Len(buf) > 0 /\ IsPrefixOf(<<r.key>>, owed)
                 THEN Tail(owed) ELSE owed
  /\ pfx' = NoPrefix
  /\ UNCHANGED <<matched, matchedLen, mustWait, flagVars, pc, wl, ml, nreads>>
  /\ UNCHANGED dispVars

\* PeekKey
PeekKey ==
  /\ Call
  /\ LET r == PopStack(buf, macroKeys) IN
     ev' = [op |-> "PeekKey", key |-> r.key, empty |-> r.empty]
  /\ UNCHANGED <<keyVars, flagVars, pc, wl, ml, nreads, histVars>>
  /\ UNCHANGED dispVars

\* MatchedKeys(keys, m, args...)
MatchedKeys(m, args) ==
  /\ Call
  /\ matched' = IF Len(m) > 0 THEN matched \o RunesOfBytes(m) ELSE matched
  /\ matchedLen' = IF Len(m) > 0 THEN matchedLen + Len(m) ELSE matchedLen
  /\ buf' = IF Len(args) > 0 THEN args \o buf ELSE buf
  /\ owed' = args \o owed
  /\ pfx' = IF Len(args) > 0 THEN NoPrefix ELSE pfx
  /\ ev' = [op |-> "MatchedKeys", m |-> m, args |-> args]
  /\ UNCHANGED <<macroKeys, mustWait, flagVars, pc, wl, ml, nreads>>
  /\ UNCHANGED dispVars

\* MatchedPrefix(keys, prefix...)
MatchedPrefix(prefix) ==
  /\ Call
  /\ IF Len(prefix) = 0
       THEN UNCHANGED <<buf, matched, matchedLen, mustWait, owed, pfx>>
       ELSE /\ CanLock
            /\ mustWait' = PrefixMustWait(prefix, buf)
            /\ buf' = PrefixStack(prefix, buf)
            /\ matched' = RunesOfBytes(prefix)
            /\ matchedLen' = Len(prefix)
            /\ owed' = prefix \o owed
            /\ pfx' = [on |-> TRUE, pre |-> buf, b |-> prefix]
  /\ ev' = [op |-> "MatchedPrefix", prefix |-> prefix]
  /\ UNCHANGED <<macroKeys, flagVars, pc, wl, ml, nreads>>
  /\ UNCHANGED dispVars

\* FlushUsed
FlushUsed ==
  /\ Call
  /\ CanLock
  /\ matched' = <<>>
  /\ matchedLen' = 0
  /\ ev' = [op |-> "FlushUsed", afterPrefix |-> pfx.on]
  /\ pfx' = NoPrefix
  /\ UNCHANGED <<buf, macroKeys, mustWait, flagVars, pc, wl, ml, nreads,
                 owed>>
  /\ UNCHANGED dispVars

\* Keys.Feed(begin, keys...)
Feed(begin, keys) ==
  /\ Call
  /\ IF Len(keys) = 0
       THEN UNCHANGED macroKeys
       ELSE /\ CanLock
            /\ macroKeys' = FeedQueue(begin, keys, macroKeys)
  /\ ev' = [op |-> "Feed", begin |-> begin, keys |-> keys]
  /\ UNCHANGED <<buf, matched, matchedLen, mustWait, flagVars, pc, wl, ml,
                 nreads, histVars>>
  /\ UNCHANGED dispVars

(***************************************************************************)
(* WaitAvailableKeys, on thread "bg".                                      *)
(***************************************************************************)
\* Mutant: an empty read ends the wait.
AfterFilterReturnOnEmpty(keyBuf) ==
  IF Len(keyBuf) = 0 THEN "return" ELSE "switch"

\* Where the wait loop goes with the keys readInputFiltered returned:
\* an empty keyBuf reads again, the rest goes to the switch on keys.reading.
AfterFilter(keyBuf) == IF Len(keyBuf) = 0 THEN "read" ELSE "switch"

\* The call and its two early returns (lines 38-45).
W_Enter ==
  /\ ~Crashed
  /\ pc.bg = "idle"
  /\ IF WaitReturnsAtOnce(buf, mustWait, macroKeys)
       THEN /\ pc' = pc
            /\ ev' = [op |-> "W_Enter", atOnce |-> TRUE]
       ELSE /\ pc' = [pc EXCEPT !.bg = "setWaiting"]
            /\ ev' = [op |-> "W_Enter", atOnce |-> FALSE]
  /\ UNCHANGED <<ncalls, keyVars, flagVars, wl, ml, nreads, histVars>>
  /\ UNCHANGED dispVars

\* Lock; waiting = true; Unlock (lines 47-49).
W_SetWaiting ==
  /\ ~Crashed
  /\ pc.bg = "setWaiting"
  /\ CanLock
  /\ waiting' = TRUE
  /\ pc' = [pc EXCEPT !.bg = "read"]
  /\ ev' = [op |-> "W_SetWaiting"]
  /\ UNCHANGED <<ncalls, keyVars, reading, keysOnce, cursor, mutex, wl, ml, nreads,
                 histVars>>
  /\ UNCHANGED dispVars

\* The blocking read of readInputFiltered returns d (lines 61-68, 345-364).
W_Read(d) ==
  /\ ~Crashed
  /\ pc.bg = "read"
  /\ nreads < MaxReads
  /\ nreads' = nreads + 1
  /\ LET f == readInputFiltered(d) IN
     /\ owed' = owed \o f.keys
     /\ wl' = [wl EXCEPT !.keyBuf = f.keys, !.err = f.err,
                         !.cursor = f.cursor,
                         !.ch = IF Len(f.cursor) > 0 THEN cursor ELSE 0]
     /\ pc' = [pc EXCEPT !.bg =
                 IF f.err = "EOF" THEN "return"
                 ELSE IF Len(f.cursor) > 0 THEN "sendCursor"
                 ELSE AfterFilter(f.keys)]
  /\ ev' = [op |-> "W_Read", d |-> d]
  /\ UNCHANGED <<ncalls, keyVars, flagVars, ml, pfx>>
  /\ UNCHANGED dispVars

\* k.cursor <- cursor (line 361) meets cursor = <-k.cursor of GetCursorPos
\* (line 282): an unbuffered channel hands the response over in one step.
W_SendCursor ==
  /\ ~Crashed
  /\ pc.bg = "sendCursor"
  /\ pc.main = "gcpRecv"
  /\ wl.ch # 0
  /\ wl.ch = cursor
  /\ ml' = [ml EXCEPT !.cursor = wl.cursor, !.err = "nil",
                      !.direct = FALSE]
  /\ wl' = [wl EXCEPT !.cursor = <<>>, !.ch = 0]
  /\ pc' = [bg |-> AfterFilter(wl.keyBuf), main |-> "gcpCheck"]
  /\ ev' = [op |-> "W_SendCursor"]
  /\ UNCHANGED <<ncalls, keyVars, flagVars, nreads, histVars>>
  /\ UNCHANGED dispVars

\* The switch on keys.reading (lines 70-79): either start the send on
\* keys.keysOnce, or RLock and load keys.buf for the append.
W_Switch ==
  /\ ~Crashed
  /\ pc.bg = "switch"
  /\ IF reading
       THEN /\ wl' = [wl EXCEPT !.ch = keysOnce]
            /\ pc' = [pc EXCEPT !.bg = "sendOnce"]
            /\ UNCHANGED mutex
       ELSE /\ CanRLock
            /\ mutex' = RLocked("bg")
            /\ wl' = [wl EXCEPT !.loaded = buf]
            /\ pc' = [pc EXCEPT !.bg = "append"]
  /\ ev' = [op |-> "W_Switch", reading |-> reading]
  /\ UNCHANGED <<ncalls, keyVars, waiting, reading, keysOnce, cursor, ml, nreads,
                 histVars>>
  /\ UNCHANGED dispVars

\* keys.buf = append(keys.buf, keyBuf...); RUnlock (lines 77-78).
W_Append ==
  /\ ~Crashed
  /\ pc.bg = "append"
  /\ buf' = wl.loaded \o wl.keyBuf
  /\ mutex' = RUnlocked("bg")
  /\ wl' = [wl EXCEPT !.loaded = <<>>]
  /\ pc' = [pc EXCEPT !.bg = "return"]
  /\ pfx' = NoPrefix
  /\ ev' = [op |-> "W_Append"]
  /\ UNCHANGED <<ncalls, matched, matchedLen, macroKeys, mustWait, waiting, reading,
                 keysOnce, cursor, ml, nreads, owed>>
  /\ UNCHANGED dispVars

\* keys.keysOnce <- keyBuf (line 72) meets buf := <-k.keysOnce of ReadKey
\* (line 189); the wait loop then continues.
W_SendOnce ==
  /\ ~Crashed
  /\ pc.bg = "sendOnce"
  /\ pc.main = "rkRecv"
  /\ wl.ch # 0
  /\ wl.ch = keysOnce
  /\ ml' = [ml EXCEPT !.buf = wl.keyBuf, !.fromDevice = TRUE]
  /\ wl' = [wl EXCEPT !.keyBuf = <<>>, !.ch = 0]
  /\ pc' = [bg |-> "read", main |-> "rkKey"]
  /\ ev' = [op |-> "W_SendOnce"]
  /\ UNCHANGED <<ncalls, keyVars, flagVars, nreads, histVars>>
  /\ UNCHANGED dispVars

\* The deferred function: Lock; waiting = false; Unlock (lines 51-55).
W_Return ==
  /\ ~Crashed
  /\ pc.bg = "return"
  /\ CanLock
  /\ waiting' = FALSE
  /\ wl' = NoLocalsW
  /\ pc' = [pc EXCEPT !.bg = "idle"]
  /\ ev' = [op |-> "W_Return", eof |-> wl.err = "EOF"]
  /\ UNCHANGED <<ncalls, keyVars, reading, keysOnce, cursor, mutex, ml, nreads,
                 histVars>>
  /\ UNCHANGED dispVars

(***************************************************************************)
(* Keys.ReadKey, on thread "main".                                         *)
(***************************************************************************)
\* RLock (line 172).
RK_Lock ==
  /\ Call
  /\ CanRLock
  /\ mutex' = RLocked("main")
  /\ ml' = NoLocalsM
  /\ pc' = [pc EXCEPT !.main = "rkInit"]
  /\ ev' = [op |-> "RK_Lock"]
  /\ UNCHANGED <<keyVars, waiting, reading, keysOnce, cursor, wl, nreads,
                 histVars>>
  /\ UNCHANGED dispVars

\* keysOnce = make(chan []byte); reading = true; RUnlock (lines 173-175).
RK_Init ==
  /\ pc.main = "rkInit"
  /\ keysOnce' = MakeChan({keysOnce} \cup
                          (IF pc.bg = "sendOnce" THEN {wl.ch} ELSE {}))
  /\ reading' = TRUE
  /\ mutex' = RUnlocked("main")
  /\ pc' = [pc EXCEPT !.main = "rkSwitch"]
  /\ ev' = [op |-> "RK_Init"]
  /\ UNCHANGED <<ncalls, keyVars, waiting, cursor, wl, ml, nreads, histVars>>
  /\ UNCHANGED dispVars

\* Mutant: the channel of a wait in flight is preferred to the macro queue.
RK_SwitchChannelFirst ==
  /\ pc.main = "rkSwitch"
  /\ IF waiting
       THEN /\ UNCHANGED <<ml, macroKeys>>
            /\ pc' = [pc EXCEPT !.main = "rkRecv"]
            /\ ev' = [op |-> "RK_Switch", case |-> "channel"]
       ELSE IF Len(macroKeys) > 0
       THEN /\ ml' = [ml EXCEPT !.key = macroKeys[1], !.fromDevice = FALSE]
            /\ macroKeys' = Tail(macroKeys)
            /\ pc' = [pc EXCEPT !.main = "rkDone"]
            /\ ev' = [op |-> "RK_Switch", case |-> "macro"]
       ELSE /\ UNCHANGED <<ml, macroKeys>>
            /\ pc' = [pc EXCEPT !.main = "rkRead"]
            /\ ev' = [op |-> "RK_Switch", case |-> "read"]
  /\ UNCHANGED <<ncalls, buf, matched, matchedLen, mustWait, flagVars, wl, nreads,
                 histVars>>
  /\ UNCHANGED dispVars

\* The switch (lines 183-194): the macro queue, then the channel of a wait
\* in flight, then a read of its own.
RK_Switch ==
  /\ pc.main = "rkSwitch"
  /\ IF Len(macroKeys) > 0
       THEN /\ ml' = [ml EXCEPT !.key = macroKeys[1], !.fromDevice = FALSE]
            /\ macroKeys' = Tail(macroKeys)
            /\ pc' = [pc EXCEPT !.main = "rkDone"]
            /\ ev' = [op |-> "RK_Switch", case |-> "macro"]
       ELSE /\ UNCHANGED <<ml, macroKeys>>
            /\ pc' = [pc EXCEPT !.main = IF waiting THEN "rkRecv"
                                         ELSE "rkRead"]
            /\ ev' = [op |-> "RK_Switch",
                      case |-> IF waiting THEN "channel" ELSE "read"]
  /\ UNCHANGED <<ncalls, buf, matched, matchedLen, mustWait, flagVars, wl, nreads,
                 histVars>>
  /\ UNCHANGED dispVars

\* The blocking read of readInputFiltered returns d (lines 192, 345-364).  A
\* response found in the chunk is sent on k.cursor before the keys return.
RK_Read(d) ==
  /\ pc.main = "rkRead"
  /\ nreads < MaxReads
  /\ nreads' = nreads + 1
  /\ LET f == readInputFiltered(d) IN
     /\ owed' = owed \o f.keys
     /\ ml' = [ml EXCEPT !.buf = f.keys, !.fromDevice = TRUE]
     /\ pc' = [pc EXCEPT !.main = IF Len(f.cursor) > 0 THEN "rkSendCursor"
                                  ELSE "rkKey"]
  /\ ev' = [op |-> "RK_Read", d |-> d]
  /\ UNCHANGED <<ncalls, keyVars, flagVars, wl, pfx>>
  /\ UNCHANGED dispVars

\* key = []rune(string(buf))[0] (lines 190, 193): indexing an empty slice
\* panics; the deferred function resets keys.reading and the program dies.
RK_Key ==
  /\ pc.main = "rkKey"
  /\ IF Len(ml.buf) = 0
       THEN /\ CanRLock
            /\ reading' = FALSE
            /\ pc' = [pc EXCEPT !.main = "panic"]
            /\ UNCHANGED ml
       ELSE /\ ml' = [ml EXCEPT !.key = FirstRune(ml.buf)]
            /\ pc' = [pc EXCEPT !.main = "rkDone"]
            /\ UNCHANGED reading
  /\ ev' = [op |-> "RK_Key", chunk |-> ml.buf]
  /\ UNCHANGED <<ncalls, keyVars, waiting, keysOnce, cursor, mutex, wl, nreads,
                 histVars>>
  /\ UNCHANGED dispVars

\* The key is recorded as matched (lines 199-200), the deferred function
\* resets keys.reading (lines 177-181) and ReadKey returns.
RK_Return ==
  /\ pc.main = "rkDone"
  /\ CanRLock
  /\ matched' = Append(matched, ml.key)
  /\ matchedLen' = matchedLen + 1
  /\ reading' = FALSE
  /\ LET used == IF ml.fromDevice THEN Take(ml.buf, FirstRuneLen(ml.buf))
                 ELSE <<>> IN
     /\ owed' = IF IsPrefixOf(used, owed) THEN Drop(owed, Len(used) + 1)
                 ELSE owed
     /\ ev' = [op |-> "ReadKey", key |-> ml.key, isAbort |-> (ml.key = Esc),
               fromDevice |-> ml.fromDevice, chunk |-> ml.buf,
               inOrder |-> IsPrefixOf(used, owed)]
  /\ ml' = NoLocalsM
  /\ pc' = [pc EXCEPT !.main = "idle"]
  /\ UNCHANGED <<ncalls, buf, macroKeys, mustWait, waiting, keysOnce, cursor, mutex,
                 wl, nreads, pfx>>
  /\ UNCHANGED dispVars

(***************************************************************************)
(* Keys.GetCursorPos, on thread "main".                                    *)
(***************************************************************************)
\* What GetCursorPos returns from a chunk that holds a response.
GCP_Result(chunk) == ParseCursor(chunk)

\* Mutant: an empty chunk is not checked for.
GCP_DisabledOnErrorOnly(err, chunk) == err # "nil"

\* The returns of disable() before any parsing: the read reported an error
\* (line 287) or what was read or passed is empty (line 295).
GCP_Disabled(err, chunk) == err # "nil" \/ Len(chunk) = 0

\* k.cursor = make(chan []byte); the query is printed (lines 261-273).
GCP_Start ==
  /\ Call
  /\ cursor' = MakeChan({cursor} \cup
                        (IF pc.bg = "sendCursor" THEN {wl.ch} ELSE {}))
  /\ ml' = NoLocalsM
  /\ pc' = [pc EXCEPT !.main = "gcpLoop"]
  /\ ev' = [op |-> "GCP_Start"]
  /\ UNCHANGED <<keyVars, waiting, reading, keysOnce, mutex, wl, nreads,
                 histVars>>
  /\ UNCHANGED dispVars

\* The switch of the loop (lines 280-292): a read in flight passes the
\* response over the channel, otherwise GetCursorPos reads the device.
GCP_Loop ==
  /\ pc.main = "gcpLoop"
  /\ pc' = [pc EXCEPT !.main = IF waiting \/ reading THEN "gcpRecv"
                               ELSE "gcpRead"]
  /\ ev' = [op |-> "GCP_Loop", inFlight |-> (waiting \/ reading)]
  /\ UNCHANGED <<ncalls, keyVars, flagVars, wl, ml, nreads, histVars>>
  /\ UNCHANGED dispVars

\* os.Stdin.Read returns d (lines 284-291).
GCP_Read(d) ==
  /\ pc.main = "gcpRead"
  /\ nreads < MaxReads
  /\ nreads' = nreads + 1
  /\ ml' = [ml EXCEPT !.cursor = d.data, !.err = d.err, !.direct = TRUE]
  /\ owed' = owed \o ReplaceAllFrom(d.data, 1)
  /\ pc' = [pc EXCEPT !.main = "gcpCheck"]
  /\ ev' = [op |-> "GCP_Read", d |-> d]
  /\ UNCHANGED <<ncalls, keyVars, flagVars, wl, pfx>>
  /\ UNCHANGED dispVars

\* What was read or passed is examined (lines 287-330): a read error or an
\* empty chunk disables the query, a chunk without response is user input
\* and is about to be appended (RLock, load of k.buf), a response is parsed
\* and returned.
GCP_Check ==
  /\ pc.main = "gcpCheck"
  /\ IF GCP_Disabled(ml.err, ml.cursor)
       THEN /\ ev' = [op |-> "GetCursorPos", x |-> -1, y |-> -1,
                      found |-> FALSE, direct |-> ml.direct,
                      chunk |-> ml.cursor, added |-> ml.added]
            /\ ml' = NoLocalsM
            /\ pc' = [pc EXCEPT !.main = "idle"]
            /\ UNCHANGED mutex
       ELSE IF FindFrom(ml.cursor, 1)[1] = 0
       THEN /\ CanRLock
            /\ mutex' = RLocked("main")
            /\ ml' = [ml EXCEPT !.loaded = buf]
            /\ pc' = [pc EXCEPT !.main = "gcpAppend"]
            /\ ev' = [op |-> "GCP_Check"]
       ELSE /\ ev' = [op |-> "GetCursorPos",
                      x |-> GCP_Result(ml.cursor)[1],
                      y |-> GCP_Result(ml.cursor)[2],
                      found |-> TRUE, direct |-> ml.direct,
                      chunk |-> ml.cursor, added |-> ml.added]
            /\ ml' = NoLocalsM
            /\ pc' = [pc EXCEPT !.main = "idle"]
            /\ UNCHANGED mutex
  /\ UNCHANGED <<ncalls, keyVars, waiting, reading, keysOnce, cursor, wl,
                 nreads, histVars>>
  /\ UNCHANGED dispVars

\* k.buf = append(k.buf, cursor...); RUnlock; continue (lines 305-308).
GCP_Append ==
  /\ pc.main = "gcpAppend"
  /\ buf' = ml.loaded \o ml.cursor
  /\ mutex' = RUnlocked("main")
  /\ ml' = [ml EXCEPT !.added = @ \o ml.cursor, !.loaded = <<>>]
  /\ pc' = [pc EXCEPT !.main = "gcpLoop"]
  /\ pfx' = NoPrefix
  /\ ev' = [op |-> "GCP_Append"]
  /\ UNCHANGED <<ncalls, matched, matchedLen, macroKeys, mustWait, waiting, reading,
                 keysOnce, cursor, wl, nreads, owed>>
  /\ UNCHANGED dispVars

(***************************************************************************)
(* The specification.                                                      *)
(***************************************************************************)
\* The inputs of Feed and MatchedPrefix while the two threads run: "x", ESC.
FeedInputsIO == { <<120>> }
PrefixInputsIO == { <<27>> }

\* The key-acquisition engine: WaitAvailableKeys on thread "bg" against
\* ReadKey, GetCursorPos and the key-stack operations on thread "main".
Next ==
  \/ Pop
  \/ \E prefix \in PrefixInputsIO : MatchedPrefix(prefix)
  \/ FlushUsed
  \/ \E keys \in FeedInputsIO : Feed(FALSE, keys)
  \/ W_Enter
  \/ W_SetWaiting
  \/ \E d \in DeviceReads : W_Read(d)
  \/ W_SendCursor
  \/ W_Switch
  \/ W_Append
  \/ W_SendOnce
  \/ W_Return
  \/ RK_Lock
  \/ RK_Init
  \/ RK_Switch
  \/ \E d \in DeviceReads : RK_Read(d)
  \/ RK_Key
  \/ RK_Return
  \/ GCP_Start
  \/ GCP_Loop
  \/ \E d \in DeviceReads : GCP_Read(d)
  \/ GCP_Check
  \/ GCP_Append

Spec == Init /\ [][Next]_vars

\* The key stack and the macro queue used from one thread, with no read in
\* flight: the key stack starts with what an earlier wait has read.
InitKeys ==
  /\ buf \in { <<>>, <<97>>, <<98, 99>> }
  /\ owed = buf
  /\ matched = <<>> /\ matchedLen = 0 /\ macroKeys = <<>>
  /\ mustWait = FALSE /\ waiting = FALSE /\ reading = FALSE
  /\ keysOnce = 0 /\ cursor = 0
  /\ mutex = [w |-> "none", r |-> {}]
  /\ pc = [bg |-> "idle", main |-> "idle"]
  /\ wl = NoLocalsW /\ ml = NoLocalsM
  /\ nreads = 0 /\ ncalls = 0
  /\ ev = [op |-> "init"]
  /\ pfx = NoPrefix
  /\ rl = NoReadline /\ ih = NoInterrupt /\ sh = NoShell

NextKeys ==
  \/ Pop
  \/ PopKey
  \/ PeekKey
  \/ \E m \in MatchedInputs, args \in RequeueInputs : MatchedKeys(m, args)
  \/ \E prefix \in PrefixInputs : MatchedPrefix(prefix)
  \/ FlushUsed
  \/ \E begin \in BOOLEAN, keys \in FeedInputs : Feed(begin, keys)

SpecKeys == InitKeys /\ [][NextKeys]_vars

(***************************************************************************)
(* Properties of the key stack and the macro queue (SpecKeys).             *)
(***************************************************************************)
\* C1: Pop (and PopKey) returns the head of pending whenever pending is non-empty, and
\* the (byte of the) head of macroQueue only when pending is empty; Feed
\* with atFront=true puts the fed keys, in their order, before the macro
\* keys already queued, and Feed with atFront=false puts them after.
C1_PopFeedOrder ==
  [][/\ ev'.op \in {"Pop", "PopKey"} =>
          /\ Len(buf) > 0 =>
               /\ ~ev'.empty /\ ev'.key = buf[1]
               /\ buf' = Tail(buf) /\ macroKeys' = macroKeys
          /\ Len(buf) = 0 /\ Len(macroKeys) > 0 =>
               /\ ~ev'.empty /\ ev'.key = ToByte(macroKeys[1])
               /\ macroKeys' = Tail(macroKeys) /\ buf' = buf
          /\ Len(buf) = 0 /\ Len(macroKeys) = 0 => ev'.empty
     /\ ev'.op = "Feed" /\ Len(ev'.keys) > 0 =>
          LET n == Len(ev'.keys)
              at == IF ev'.begin THEN 0 ELSE Len(macroKeys) IN
          /\ Len(macroKeys') = Len(macroKeys) + n
          /\ IF ev'.begin THEN IsSuffixOf(macroKeys, macroKeys')
                          ELSE IsPrefixOf(macroKeys, macroKeys')
          /\ \A i \in 1..n :
               ValidRune(ev'.keys[i]) => macroKeys'[at + i] = ev'.keys[i]
          /\ buf' = buf]_vars

\* Pop has just returned the head of pending while macroQueue held keys.
C1_Witness ==
  /\ ev.op = "Pop" /\ ~ev.empty
  /\ Len(macroKeys) > 0
  /\ Len(matched) > 0 /\ matched[Len(matched)] = ev.key
  /\ ev.key \in {97, 98}

\* C6 as stated: after MatchedPrefix(b) and then FlushUsed(), with no Pop in
\* between, pending is exactly what it was before the MatchedPrefix call.
C6_PendingAsBeforePrefix ==
  [][ev'.op = "FlushUsed" /\ pfx.on => buf' = pfx.pre]_vars

\* C6 amended: after MatchedPrefix(b) and then FlushUsed(), with nothing
\* else changing pending in between, pending is b followed by exactly what
\* it held before the MatchedPrefix call; FlushUsed does not change it.
C6_PrefixBackAtFront ==
  [][ev'.op = "FlushUsed" /\ pfx.on =>
       /\ buf' = pfx.b \o pfx.pre
       /\ buf' = buf]_vars

\* FlushUsed has just run after a MatchedPrefix on a non-empty pending.
C6_Witness ==
  ev.op = "FlushUsed" /\ ev.afterPrefix /\ Len(buf) >= 2 /\ matched = <<>>

\* C7: MatchedPrefix with a non-empty prefix pushes the prefix in front of
\* every pending byte and sets must-wait exactly when pending held no other
\* byte; with an empty prefix it changes nothing.
C7_MatchedPrefix ==
  [][ev'.op = "MatchedPrefix" =>
       IF Len(ev'.prefix) > 0
         THEN /\ buf' = ev'.prefix \o buf
              /\ mustWait' <=> (Len(buf) = 0)
         ELSE UNCHANGED <<buf, matched, matchedLen, macroKeys, mustWait>>
    ]_vars

\* MatchedPrefix has just pushed a prefix onto an empty pending.
C7_Witness ==
  /\ ev.op = "MatchedPrefix" /\ Len(ev.prefix) > 0
  /\ buf = ev.prefix /\ mustWait

(***************************************************************************)
(* Properties of the key-acquisition engine (Spec).                        *)
(***************************************************************************)
\* The keys thread "bg" has read and still holds for the key stack.
Held ==
  IF pc.bg \in {"sendCursor", "switch", "sendOnce", "append"}
    THEN wl.keyBuf ELSE <<>>

\* C2 as stated: every device byte is returned exactly once and in device
\* order by ReadKey or Pop, and when ReadKey returns, every byte delivered
\* and not yet returned (the rest of its chunk included) is in pending or
\* about to be appended to it.
C2_NoByteLostOrReordered ==
  /\ ev.op \in {"ReadKey", "Pop"} => ev.inOrder
  /\ ev.op = "ReadKey" /\ ev.fromDevice => owed = buf \o Held

\* C3 as stated: GetCursorPos returns (10, 24) for ESC[24;10R and the user
\* bytes that came with the response in the same read are in pending (when
\* GetCursorPos read the device itself) or kept by the reader in flight.
C3_UserBytesAroundResponse ==
  /\ ev.op = "GetCursorPos" /\ ev.found =>
       /\ <<ev.x, ev.y>> = <<10, 24>>
       /\ IsSuffixOf(ReplaceAllFrom(ev.chunk, 1), buf)
  /\ ev.op = "W_Read" /\ pc.bg = "sendCursor" =>
       wl.keyBuf = ReplaceAllFrom(ev.d.data, 1)

\* C4 as stated: a non-empty chunk without response obtained by
\* GetCursorPos is appended to the end of pending and the query goes on
\* reading, and no byte so appended is dropped while the query runs.
C4_ChunkAppendedNeverDropped ==
  [][/\ ev'.op = "GCP_Append" =>
          buf' = buf \o ml.cursor /\ pc'.main = "gcpLoop"
     /\ ev'.op = "W_Append" /\ Len(ml.added) > 0 => IsPrefixOf(buf, buf')
    ]_vars

\* C5 as stated: on a read error or an empty chunk GetCursorPos returns
\* (-1, -1) and the call has added nothing to pending.
C5_DisabledAddsNothing ==
  [][ev'.op \in {"GCP_Check", "GetCursorPos"}
       /\ (ml.err # "nil" \/ Len(ml.cursor) = 0) =>
       /\ ev'.op = "GetCursorPos" /\ ev'.x = -1 /\ ev'.y = -1
       /\ buf' = buf
       /\ ev'.added = <<>>]_vars

\* C5 amended: on a read error or an empty chunk GetCursorPos returns
\* (-1, -1) and that return leaves pending as it is: the failing read adds
\* nothing, and what earlier reads of the same call appended is not taken
\* back.
C5_DisabledOnErrorOrEmpty ==
  [][ev'.op \in {"GCP_Check", "GetCursorPos"}
       /\ (ml.err # "nil" \/ Len(ml.cursor) = 0) =>
       /\ ev'.op = "GetCursorPos" /\ ev'.x = -1 /\ ev'.y = -1
       /\ buf' = buf]_vars

\* GetCursorPos has just returned (-1, -1) after appending user input.
C5_Witness ==
  /\ ev.op = "GetCursorPos" /\ ~ev.found /\ ev.x = -1 /\ ev.y = -1
  /\ Len(ev.added) > 0 /\ IsSuffixOf(ev.added, buf)

\* C8: WaitAvailableKeys returns at once, reading nothing and leaving
\* pending and macroQueue alone, when pending is non-empty and must-wait is
\* not set, and whenever macroQueue is non-empty; in every other state it
\* marks itself waiting and blocks in a device read.
C8_WaitReturnsAtOnce ==
  [][/\ ev'.op = "W_Enter" =>
          IF (Len(buf) > 0 /\ ~mustWait) \/ Len(macroKeys) > 0
            THEN /\ ev'.atOnce /\ pc'.bg = "idle"
                 /\ UNCHANGED <<buf, macroKeys, nreads, waiting>>
            ELSE ~ev'.atOnce /\ pc'.bg = "setWaiting"
     /\ ev'.op = "W_SetWaiting" => waiting' /\ pc'.bg = "read"]_vars

\* A wait has just returned at once on a non-empty macroQueue although
\* must-wait is set.
C8_Witness ==
  /\ ev.op = "W_Enter" /\ ev.atOnce /\ pc.bg = "idle"
  /\ mustWait /\ Len(macroKeys) > 0 /\ nreads = 0

\* C9: on device EOF WaitAvailableKeys returns, leaving pending and
\* macroQueue unchanged and the waiting flag false.
C9_EOFEndsWait ==
  [][/\ ev'.op = "W_Read" /\ ev'.d.err = "EOF" =>
          pc'.bg = "return" /\ UNCHANGED <<buf, macroKeys>>
     /\ ev'.op = "W_Return" /\ ev'.eof =>
          /\ ~waiting' /\ pc'.bg = "idle"
          /\ UNCHANGED <<buf, macroKeys>>]_vars

\* A wait has just returned on EOF.
C9_Witness ==
  ev.op = "W_Return" /\ ev.eof /\ ~waiting /\ pc.bg = "idle"

\* C10: a zero-length read without error makes the wait loop read again;
\* the call does not return and pending is unchanged.
C10_EmptyReadRetried ==
  [][ev'.op = "W_Read" /\ ev'.d.err = "nil" /\ Len(ev'.d.data) = 0 =>
       /\ pc'.bg = "read" /\ waiting'
       /\ UNCHANGED <<buf, macroKeys, mustWait>>]_vars

\* The wait loop is reading again after a zero-length read.
C10_Witness ==
  /\ ev.op = "W_Read" /\ ev.d = [data |-> <<>>, err |-> "nil"]
  /\ pc.bg = "read" /\ waiting

(***************************************************************************)
(* Errors, reads and locking of the key-acquisition engine (Spec).         *)
(***************************************************************************)
\* C11 as stated: a device read error other than EOF reaches the caller of
\* the blocking read: WaitAvailableKeys gets the error and ends the wait
\* instead of reading again, and ReadKey does not go on to take a key from
\* the chunk as if bytes had been read.
C11_ReadErrorNotSwallowed ==
  /\ ev.op = "W_Read" /\ ev.d.err = "error" =>
       wl.err = "error" /\ pc.bg = "return"
  /\ ev.op = "RK_Read" /\ ev.d.err = "error" => pc.main # "rkKey"

\* The threads that are blocked in a device read (os.Stdin.Read).
InDeviceRead ==
  (IF pc.bg = "read" THEN {"bg"} ELSE {})
    \cup (IF pc.main \in {"rkRead", "gcpRead"} THEN {"main"} ELSE {})

\* C12 as stated: at most one blocking device read is outstanding at any
\* time, whatever the interleaving of a background WaitAvailableKeys with
\* ReadKey and GetCursorPos.
C12_OneReadOutstanding == Cardinality(InDeviceRead) <= 1

\* The threads that stand between the load and the store of a write to a
\* shared field of Keys (keys.buf, keys.keysOnce, keys.reading).
InWriteSection ==
  (IF pc.bg = "append" THEN {"bg"} ELSE {})
    \cup (IF pc.main \in {"gcpAppend", "rkInit"} THEN {"main"} ELSE {})

\* C13 as stated: the mutex serializes every mutation of the shared fields:
\* no two operations are writing them at the same time.
C13_MutationsSerialized == Cardinality(InWriteSection) <= 1

\* The threads blocked on a device read, a channel send or a channel
\* receive.
Blocked ==
  (IF pc.bg \in {"read", "sendCursor", "sendOnce"} THEN {"bg"} ELSE {})
    \cup (IF pc.main \in {"rkRead", "rkRecv", "rkSendCursor", "gcpRead",
                          "gcpRecv"}
            THEN {"main"} ELSE {})

FeedInputsReadKey == { <<120>>, <<Esc>> }

\* What the device answers: as before, and also a lone escape character
\* and U+00E9 in UTF-8 followed by "a".
ReadKeyReads ==
  DeviceReads \cup [data : { <<Esc>>, <<195, 169, 97>> }, err : {"nil"}]

NextReadKey ==
  \/ \E keys \in FeedInputsReadKey : Feed(FALSE, keys)
  \/ W_Enter
  \/ W_SetWaiting
  \/ \E d \in ReadKeyReads : W_Read(d)
  \/ W_Switch
  \/ W_Append
  \/ W_SendOnce
  \/ W_Return
  \/ RK_Lock
  \/ RK_Init
  \/ RK_Switch
  \/ \E d \in ReadKeyReads : RK_Read(d)
  \/ RK_Key
  \/ RK_Return

SpecReadKey == Init /\ [][NextReadKey]_vars

\* C15: ReadKey takes the head of macroQueue when macroQueue is non-empty
\* and reads nothing from the device; otherwise, with a WaitAvailableKeys
\* in flight, it takes the first key of the chunk delivered on the one-shot
\* channel; only otherwise does it read the device itself.  Its is-abort
\* flag is true exactly when the key it returns is the escape character.
C15_ReadKeySources ==
  [][/\ ev'.op = "RK_Switch" =>
          IF Len(macroKeys) > 0
            THEN /\ ev'.case = "macro" /\ pc'.main = "rkDone"
                 /\ ml'.key = macroKeys[1] /\ macroKeys' = Tail(macroKeys)
                 /\ ~ml'.fromDevice /\ nreads' = nreads
          ELSE IF waiting
            THEN /\ ev'.case = "channel" /\ pc'.main = "rkRecv"
                 /\ UNCHANGED <<macroKeys, nreads>>
          ELSE /\ ev'.case = "read" /\ pc'.main = "rkRead"
               /\ UNCHANGED <<macroKeys, nreads>>
     /\ ev'.op = "W_SendOnce" =>
          pc.main = "rkRecv" /\ ml'.buf = wl.keyBuf /\ pc'.main = "rkKey"
     /\ ev'.op = "RK_Key" /\ Len(ml.buf) > 0 =>
          ml'.key = RunesOfBytes(ml.buf)[1] /\ pc'.main = "rkDone"
     /\ ev'.op = "ReadKey" =>
          /\ ev'.key = ml.key
          /\ ev'.isAbort <=> (ev'.key = Esc)
          /\ matched' = Append(matched, ev'.key)
    ]_vars

\* ReadKey has just returned the escape character, taken from macroQueue
\* while a WaitAvailableKeys was in flight, with the is-abort flag set.
C15_Witness ==
  /\ ev.op = "ReadKey" /\ ev.key = Esc /\ ev.isAbort /\ ~ev.fromDevice
  /\ waiting /\ nreads = 0

(***************************************************************************)
(* The channels of the synchronous calls (Spec).                           *)
(***************************************************************************)
\* Where thread "main" stands while the ReadKey call that allocated
\* keys.keysOnce, or the GetCursorPos call that allocated keys.cursor, has
\* not returned yet.
InReadKey ==
  pc.main \in {"rkSwitch", "rkRecv", "rkRead", "rkSendCursor", "rkKey",
               "rkDone"}
InGetCursorPos ==
  pc.main \in {"gcpLoop", "gcpRecv", "gcpRead", "gcpCheck", "gcpAppend"}

\* The background reader is sending on a channel whose call has returned.
StaleSend ==
  \/ pc.bg = "sendOnce" /\ wl.ch # 0 /\ ~(InReadKey /\ wl.ch = keysOnce)
  \/ pc.bg = "sendCursor" /\ wl.ch # 0
       /\ ~(InGetCursorPos /\ wl.ch = cursor)

\* C16 as stated: each ReadKey and each GetCursorPos call allocates a fresh
\* channel, and the background reader never sends on the channel of a
\* synchronous call that has already returned.
C16_NoSendOnStaleChannel ==
  [][/\ ev'.op = "RK_Init" => keysOnce' # 0 /\ keysOnce' # keysOnce
     /\ ev'.op = "GCP_Start" => cursor' # 0 /\ cursor' # cursor
     /\ ~StaleSend']_vars

(***************************************************************************)
(* Instance.Readline: the dispatcher loop (package readline).  The chunks  *)
(* of the model hold ASCII bytes only, so that the runes r[:i] of a chunk  *)
(* are its bytes b[:i].                                                    *)
(***************************************************************************)
\* Bounds: the size of the read buffer (1024 in the source, line 53) and
\* the number of reads the device answers to Readline in one behaviour.
ScanBufSize == 3
MaxKeys == 4

\* The keys the loop switches on (lines 126-200).
charCtrlC == 3
charEOF == 4
charCtrlF == 6
charBackspace == 8
charTab == 9
charLF == 10
charCR == 13
charCtrlR == 18
charCtrlU == 21
charEscape == 27
charBackspace2 == 127

\* The character class of rxMultiline = [\r\n]+.
IsBreak(c) == c = charCR \/ c = charLF

\* isMultiline: a line break that is not the last rune.
isMultiline(r) == \E i \in 1..Len(r) : IsBreak(r[i]) /\ i # Len(r)

RECURSIVE SplitFrom(_, _, _)
\* rxMultiline.Split(s, -1) from index i on, cur being the field collected
\* so far: the fields between the runs of line breaks.
SplitFrom(s, i, cur) ==
  IF i > Len(s) THEN <<cur>>
  ELSE IF IsBreak(s[i])
    THEN IF i + 1 <= Len(s) /\ IsBreak(s[i + 1])
           THEN SplitFrom(s, i + 1, cur)
           ELSE <<cur>> \o SplitFrom(s, i + 1, <<>>)
  ELSE SplitFrom(s, i + 1, Append(cur, s[i]))

\* The functions of Instance that Readline calls and whose code is not in
\* the sources: insertion at the cursor, deletion before and at the cursor,
\* clearing the line, and the resets of the search and completion modes.
\* A cursor beyond the end of the line edits at its end.
CursorIn(st) == IF st.pos > Len(st.line) THEN Len(st.line) ELSE st.pos
insert(st, r) ==
  [st EXCEPT !.line = Take(st.line, CursorIn(st)) \o r
                        \o Drop(st.line, CursorIn(st) + 1),
             !.pos = st.pos + Len(r)]
backspace(st) ==
  IF CursorIn(st) = 0 THEN st
  ELSE [st EXCEPT !.line = Take(st.line, CursorIn(st) - 1)
                             \o Drop(st.line, CursorIn(st) + 1),
                  !.pos = CursorIn(st) - 1]
\* delete: the rune under the cursor, or the last one at the end of the line.
delete(st) ==
  IF Len(st.line) = 0 THEN st
  ELSE IF st.pos >= Len(st.line)
    THEN [st EXCEPT !.line = Take(st.line, Len(st.line) - 1),
                    !.pos = Len(st.line) - 1]
  ELSE [st EXCEPT !.line = Take(st.line, st.pos) \o Drop(st.line, st.pos + 2)]
clearLine(st) == [st EXCEPT !.line = <<>>, !.pos = 0]
resetTabFind(st) == [st EXCEPT !.modeTabFind = FALSE, !.modeAutoFind = FALSE]
\* Mutant: the completion menu stays open.
resetTabCompletionStaysOpen(st) == st

resetTabCompletion(st) == [st EXCEPT !.modeTabCompletion = FALSE]
getTabCompletion(st) == [st EXCEPT !.modeTabCompletion = TRUE]
\* The candidate highlighted in the completion menu: "s".
Suggestion == <<115>>

\* The vi interpreter rl.vi, whose code is not in the sources: the
\* commands that leave vi-command mode, i and a for insert, r and R for
\* the replace modes, d for a pending delete; the motions are not modelled.
vi(st, c) ==
  CASE c = 105 -> [st EXCEPT !.modeViMode = "vimInsert"]
    [] c = 97 -> [st EXCEPT !.modeViMode = "vimInsert",
                            !.pos = IF st.pos < Len(st.line)
                                      THEN st.pos + 1 ELSE st.pos]
    [] c = 114 -> [st EXCEPT !.modeViMode = "vimReplaceOnce"]
    [] c = 82 -> [st EXCEPT !.modeViMode = "vimReplaceMany"]
    [] c = 100 -> [st EXCEPT !.modeViMode = "vimDelete"]
    [] OTHER -> st

\* rl.vimDelete, whose code is not in the sources: the key after d is the
\* target of the delete, dd clearing the line, and vi-command mode is back.
vimDelete(st, r) ==
  [(IF r[1] = 100 THEN clearLine(st) ELSE st) EXCEPT !.modeViMode = "vimKeys"]

\* Mutant: replace-many replaces for the first rune only.
replaceRunesFirstOnly(st, r) ==
  IF Len(r) = 0 THEN st ELSE insert(delete(st), <<r[1]>>)

RECURSIVE replaceRunes(_, _)
\* The loop of replace-many (lines 380-383): delete, then insert, for
\* every rune of r.
replaceRunes(st, r) ==
  IF Len(r) = 0 THEN st
  ELSE replaceRunes(insert(delete(st), <<r[1]>>), Tail(r))

\* editorInput (lines 360-394), the router of the editing modes.
editorInput(st, r) ==
  CASE st.modeViMode = "vimKeys" -> vi(st, r[1])
    [] st.modeViMode = "vimDelete" -> vimDelete(st, r)
    [] st.modeViMode = "vimReplaceOnce" ->
         insert(delete([st EXCEPT !.modeViMode = "vimKeys"]), <<r[1]>>)
    [] st.modeViMode = "vimReplaceMany" -> replaceRunes(st, r)
    [] OTHER -> insert(st, r)

\* The escape sequences of the cursor keys, defined outside the sources:
\* ESC [ D, ESC [ C, ESC [ H and ESC [ F.
seqBackwards == <<charEscape, LBracket, 68>>
seqForwards == <<charEscape, LBracket, 67>>
seqHome == <<charEscape, LBracket, 72>>
seqEnd == <<charEscape, LBracket, 70>>

\* Mutant: Escape closes the sub-modes and never enters vi-command mode.
escapeSeqClosesOnly(st, r) ==
  IF r = <<charEscape>> THEN resetTabCompletion(resetTabFind(st)) ELSE st

\* escapeSeq (lines 223-355) for the lone escape character and for the
\* left, right, Home and End keys; the other sequences are not among the
\* chunks of the model.
escapeSeq(st, r) ==
  CASE r = <<charEscape>> ->
         IF st.modeAutoFind THEN resetTabCompletion(resetTabFind(st))
         ELSE IF st.modeTabFind THEN resetTabFind(st)
         ELSE IF st.modeTabCompletion THEN resetTabCompletion(st)
         ELSE [st EXCEPT !.pos = IF st.pos = Len(st.line) /\ Len(st.line) > 0
                                   THEN st.pos - 1 ELSE st.pos,
                         !.modeViMode = "vimKeys"]
    [] r = seqBackwards ->
         IF st.modeTabCompletion \/ st.pos <= 0 THEN st
         ELSE [st EXCEPT !.pos = st.pos - 1]
    [] r = seqForwards ->
         IF st.modeTabCompletion THEN st
         ELSE IF \/ st.modeViMode = "vimInsert" /\ st.pos < Len(st.line)
                 \/ st.modeViMode # "vimInsert" /\ st.pos < Len(st.line) - 1
           THEN [st EXCEPT !.pos = st.pos + 1]
         ELSE st
    [] r = seqHome ->
         IF st.modeTabCompletion THEN st ELSE [st EXCEPT !.pos = 0]
    [] r = seqEnd ->
         IF st.modeTabCompletion THEN st
         ELSE [st EXCEPT !.pos = Len(st.line)]
    [] OTHER -> st

\* Mutant: the kill-line key is taken for the interrupt key.
KeyClassCtrlUInterrupts(b0) ==
  IF b0 = charCtrlC \/ b0 = charCtrlU THEN "ctrlC"
  ELSE IF b0 = charEOF THEN "eof"
  ELSE IF b0 = charCR \/ b0 = charLF THEN "enter"
  ELSE "default"

\* The case of the switch on b[0] (lines 126-203).
KeyClass(b0) ==
  IF b0 = charCtrlC THEN "ctrlC"
  ELSE IF b0 = charEOF THEN "eof"
  ELSE IF b0 = charCtrlF THEN "ctrlF"
  ELSE IF b0 = charCtrlR THEN "ctrlR"
  ELSE IF b0 = charCtrlU THEN "ctrlU"
  ELSE IF b0 = charTab THEN "tab"
  ELSE IF b0 = charCR \/ b0 = charLF THEN "enter"
  ELSE IF b0 = charBackspace \/ b0 = charBackspace2 THEN "backspace"
  ELSE IF b0 = charEscape THEN "escape"
  ELSE "default"

\* One outcome of an iteration of the loop: the Instance it leaves, whether
\* Readline returns, and the line and error it returns.
Out(st, ret, by, line, err) ==
  [st |-> IF ret THEN [st EXCEPT !.pc = "idle"] ELSE st,
   ret |-> ret, by |-> by, line |-> line, err |-> err]

\* The switch on b[0] for the chunk b (lines 126-214).
DispatchKey(st, b) ==
  LET class == KeyClass(IF Len(b) = 0 THEN 0 ELSE b[1]) IN
  CASE class = "ctrlC" -> Out(st, TRUE, "ctrlC", <<>>, "CtrlC")
    [] class = "eof" -> Out(st, TRUE, "eofKey", <<>>, "EOF")
    [] class = "ctrlF" ->
         Out([st EXCEPT !.searchMode = "CompletionFind",
                        !.modeAutoFind = TRUE],
             FALSE, "key", <<>>, "nil")
    [] class = "ctrlR" ->
         Out([st EXCEPT !.searchMode = "HistoryFind", !.modeAutoFind = TRUE,
                        !.modeTabCompletion = TRUE, !.modeTabFind = TRUE],
             FALSE, "key", <<>>, "nil")
    [] class = "ctrlU" -> Out(clearLine(st), FALSE, "key", <<>>, "nil")
    [] class = "tab" ->
         Out(IF st.modeTabCompletion THEN st ELSE getTabCompletion(st),
             FALSE, "key", <<>>, "nil")
    [] class = "enter" ->
         IF st.modeTabCompletion
           THEN Out(insert(resetTabCompletion(st), Suggestion),
                    FALSE, "enterCompletion", <<>>, "nil")
           ELSE Out(st, TRUE, "enter", st.line, "nil")
    [] class = "backspace" ->
         Out(IF st.modeTabFind \/ st.modeAutoFind THEN st ELSE backspace(st),
             FALSE, "key", <<>>, "nil")
    [] class = "escape" -> Out(escapeSeq(st, b), FALSE, "key", <<>>, "nil")
    [] OTHER ->
         IF st.modeAutoFind
              \/ (st.modeTabFind /\ st.searchMode = "CompletionFind")
           THEN Out(st, FALSE, "key", <<>>, "nil")
           ELSE LET st1 == editorInput(st, b) IN
                Out([st1 EXCEPT !.skipStdinRead =
                       Len(st1.multiline) > 0 /\ st1.modeViMode = "vimKeys"],
                    FALSE, "key", <<>>, "nil")

\* The custom key overrides rl.evtKeyPress: one is registered, for "o", and
\* it may answer any of these results.
CustomKeys == { <<111>> }
CustomResults ==
  [NewLine : { <<>>, <<122>> }, NewPos : {0, 1},
   ForwardKey : BOOLEAN, CloseReadline : BOOLEAN]
NoCustom ==
  [NewLine |-> <<>>, NewPos |-> 0, ForwardKey |-> TRUE,
   CloseReadline |-> FALSE]

\* The override of a chunk and its result (lines 94-124): the line and the
\* cursor are replaced; a result without ForwardKey ends the iteration, a
\* forwarded result with CloseReadline returns the line, any other
\* forwarded result goes on to the switch.
CustomKey(st, b, res) ==
  LET st1 == [st EXCEPT !.line = res.NewLine, !.pos = res.NewPos] IN
  IF ~res.ForwardKey THEN Out(st1, FALSE, "customSwallow", <<>>, "nil")
  ELSE IF res.CloseReadline
    THEN Out(st1, TRUE, "customClose", st1.line, "nil")
  ELSE DispatchKey(st1, b)

\* Mutant: "n" is taken for "y".
ConfirmAnswerNoIsYes(d) ==
  IF d.err # "nil" THEN "reject"
  ELSE IF d.data \in { <<121>>, <<89>>, <<110>>, <<78>> } THEN "accept"
  ELSE "again"

\* allowMultiline (lines 428-460): what one answer to the prompt does.
ConfirmAnswer(d) ==
  IF d.err # "nil" THEN "reject"
  ELSE IF d.data \in { <<121>>, <<89>> } THEN "accept"
  ELSE IF d.data \in { <<110>>, <<78>> } THEN "reject"
  ELSE "again"

\* What one os.Stdin.Read of Readline can answer: "a", Enter, Ctrl-C, the
\* EOF key, Tab, Escape, Ctrl-R, Ctrl-U, the overridden key "o", the pastes
\* "\nb" and "a\nb", the answers "y", "n" and "p", and the two failures.
ReadlineChunks ==
  { <<97>>, <<charCR>>, <<charCtrlC>>, <<charEOF>>, <<charTab>>,
    <<charEscape>>, <<charCtrlR>>, <<charCtrlU>>, <<111>>,
    <<charLF, 98>>, <<97, charLF, 98>>, <<121>>, <<110>>, <<112>> }
ReadlineReads ==
  [data : ReadlineChunks, err : {"nil"}]
    \cup [data : {<<>>}, err : {"EOF", "error"}]
NoRead == [data |-> <<>>, err |-> "nil"]

\* Mutant: the line just replayed stays at the head of rl.multisplit.
popMultisplitKeepsHead(ms) == ms

\* The line given out leaves rl.multisplit (lines 40-44 and 86-90).
popMultisplit(ms) == IF Len(ms) > 1 THEN Tail(ms) ELSE <<>>

\* Readline is called (lines 25-49): the line is reset; a line left over
\* from an accepted paste is replayed and returned without a read.  The
\* history rl.pasted holds the lines of the last accepted paste and
\* rl.results the lines Readline has returned since it was accepted.
RL_Start ==
  /\ rl.pc = "idle"
  /\ LET st0 == resetTabCompletion(
                  [rl EXCEPT !.line = <<>>, !.pos = 0,
                             !.modeViMode = "vimInsert"]) IN
     IF Len(rl.multisplit) > 0
       THEN LET st1 == editorInput(st0, rl.multisplit[1]) IN
            /\ rl' = [st1 EXCEPT !.multisplit = popMultisplit(@),
                                 !.results = Append(@, st1.line)]
            /\ ev' = [op |-> "RL_Start", d |-> NoRead, custom |-> NoCustom,
                      ret |-> TRUE, by |-> "replay", line |-> st1.line,
                      err |-> "nil"]
       ELSE /\ rl' = [st0 EXCEPT !.pc = "read", !.pasted = <<>>,
                                 !.results = <<>>]
            /\ ev' = [op |-> "RL_Start", d |-> NoRead, custom |-> NoCustom,
                      ret |-> FALSE, by |-> "start", line |-> <<>>,
                      err |-> "nil"]
  /\ UNCHANGED <<engineVars, ih, sh>>

\* One iteration of the loop (lines 51-220) on the answer d of the device.
RL_Key(d) ==
  /\ rl.pc = "read"
  /\ rl.nkeys < MaxKeys
  /\ LET skip == rl.skipStdinRead
         b == IF skip THEN <<>> ELSE d.data
         st0 == [rl EXCEPT !.skipStdinRead = FALSE,
                           !.nkeys = IF skip THEN @ ELSE @ + 1] IN
     \E res \in (IF b \in CustomKeys THEN CustomResults ELSE {NoCustom}) :
       LET o ==
             IF ~skip /\ d.err # "nil"
               THEN Out([rl EXCEPT !.nkeys = @ + 1], TRUE, "readError",
                        <<>>, d.err)
             ELSE IF isMultiline(b) \/ Len(rl.multiline) > 0
               THEN LET st1 == [st0 EXCEPT !.multiline = @ \o b] IN
                    IF Len(b) = ScanBufSize
                      THEN Out(st1, FALSE, "multilineMore", <<>>, "nil")
                      ELSE Out([st1 EXCEPT !.pc = "confirm"], FALSE,
                               "confirm", <<>>, "nil")
             ELSE IF b \in CustomKeys THEN CustomKey(st0, b, res)
             ELSE DispatchKey(st0, b) IN
       /\ rl' = o.st
       /\ ev' = [op |-> "RL_Key", d |-> d, custom |-> res, ret |-> o.ret,
                 by |-> o.by, line |-> o.line, err |-> o.err]
  /\ UNCHANGED <<engineVars, ih, sh>>

\* One answer d to the prompt of allowMultiline, and what Readline does
\* with the verdict (lines 73-91, 428-460).
RL_Confirm(d) ==
  /\ rl.pc = "confirm"
  /\ rl.nkeys < MaxKeys
  /\ LET ans == ConfirmAnswer(d)
         st0 == [rl EXCEPT !.nkeys = @ + 1] IN
     CASE ans = "again" ->
            /\ rl' = st0
            /\ ev' = [op |-> "RL_Confirm", d |-> d, custom |-> NoCustom,
                      ret |-> FALSE, by |-> "again", line |-> <<>>,
                      err |-> "nil"]
       [] ans = "reject" ->
            /\ rl' = [st0 EXCEPT !.multiline = <<>>, !.pc = "read"]
            /\ ev' = [op |-> "RL_Confirm", d |-> d, custom |-> NoCustom,
                      ret |-> FALSE, by |-> "reject", line |-> <<>>,
                      err |-> "nil"]
       [] OTHER ->
            LET split == SplitFrom(rl.multiline, 1, <<>>)
                st1 == editorInput(
                         [st0 EXCEPT !.multisplit = split,
                                     !.modeViMode = "vimInsert"],
                         split[1]) IN
            /\ rl' = [st1 EXCEPT !.multiline = <<>>,
                                 !.multisplit = popMultisplit(split),
                                 !.pasted = split,
                                 !.results = <<st1.line>>,
                                 !.pc = "idle"]
            /\ ev' = [op |-> "RL_Confirm", d |-> d, custom |-> NoCustom,
                      ret |-> TRUE, by |-> "accept", line |-> st1.line,
                      err |-> "nil"]
  /\ UNCHANGED <<engineVars, ih, sh>>

NextReadline ==
  \/ RL_Start
  \/ \E d \in ReadlineReads : RL_Key(d)
  \/ \E d \in ReadlineReads : RL_Confirm(d)

SpecReadline == Init /\ [][NextReadline]_vars

(***************************************************************************)
(* Claims about the dispatcher loop of Readline.                           *)
(***************************************************************************)
\* The chunk of a step is a single key of the given codes that reaches the
\* switch: no paste is being accumulated and the chunk holds no inner line
\* break.
KeyReachesSwitch(codes) ==
  /\ ev'.d.err = "nil"
  /\ Len(rl.multiline) = 0
  /\ ~isMultiline(ev'.d.data)
  /\ Len(ev'.d.data) > 0
  /\ ev'.d.data[1] \in codes

\* The exits the claim C17 lists: end of input, an interrupt key, Enter
\* outside the completion menu, a custom handler requesting close.
ListedExit ==
  \/ ev'.d.err = "EOF"
  \/ KeyReachesSwitch({charCtrlC, charEOF})
  \/ KeyReachesSwitch({charCR, charLF}) /\ ~rl.modeTabCompletion
  \/ /\ KeyReachesSwitch({111})
     /\ ev'.custom.ForwardKey /\ ev'.custom.CloseReadline

\* C17 as stated: the dispatcher loop of Readline returns only on end of
\* input, on an interrupt key, or on a line-accepted event (Enter, or a
\* custom handler requesting close); nothing else makes Readline return.
C17_OnlyListedExits ==
  [][ev'.op \in {"RL_Key", "RL_Confirm"} /\ ev'.ret => ListedExit]_vars

\* C17 amended: Readline returns only on a failed read of the device (end
\* of input or any other error), on the interrupt key or the EOF key, on
\* Enter outside the completion menu, on a forwarded custom result that
\* requests close, on a pasted chunk with line breaks accepted at the
\* confirmation prompt, or, before any read, to replay a line such a paste
\* left over.
C17_ReturnReasons ==
  [][ev'.op \in {"RL_Start", "RL_Key", "RL_Confirm"} /\ ev'.ret =>
       \/ ev'.op = "RL_Start" /\ Len(rl.multisplit) > 0
       \/ /\ ev'.op = "RL_Confirm"
          /\ ev'.d.err = "nil" /\ ev'.d.data \in { <<121>>, <<89>> }
       \/ /\ ev'.op = "RL_Key"
          /\ \/ ev'.d.err # "nil"
             \/ ListedExit]_vars

\* Readline returned because the device failed with an error other than
\* end of input.
C17_Witness == ev.op = "RL_Key" /\ ev.ret /\ ev.err = "error"

\* C19: when the result of a custom key override requests close, Readline
\* returns the line the override set, without processing a further key and
\* whatever the other flags of the result; when the result does not
\* request forwarding, the key reaches no built-in handler.
C19_CloseReturnsOverrideLine ==
  [][ev'.op = "RL_Key" /\ KeyReachesSwitch({111}) =>
       /\ ev'.custom.CloseReadline =>
            ev'.ret /\ ev'.err = "nil" /\ ev'.line = ev'.custom.NewLine
       /\ ~ev'.custom.ForwardKey /\ ~ev'.custom.CloseReadline =>
            /\ ~ev'.ret
            /\ rl' = [rl EXCEPT !.line = ev'.custom.NewLine,
                                !.pos = ev'.custom.NewPos,
                                !.nkeys = @ + 1]]_vars

\* C20: a pasted chunk with a line break that is not at its end brings up
\* one accept / reject / preview confirmation before any of its characters
\* is inserted: the step that takes the chunk only accumulates its bytes
\* and leaves the line and the cursor alone, and the prompt stays up until
\* it is answered yes or no.  On a reject answer (or a failed read at the
\* prompt) nothing is inserted, the line and the cursor are unchanged, the
\* accumulated bytes are discarded and the loop reads on; only a yes
\* answer lets the paste reach the line.
C20_ConfirmBeforeInsert ==
  [][/\ /\ ev'.op = "RL_Key"
        /\ ev'.d.err = "nil"
        /\ isMultiline(ev'.d.data) \/ Len(rl.multiline) > 0
        => /\ ~ev'.ret
           /\ rl'.line = rl.line /\ rl'.pos = rl.pos
           /\ rl'.multiline = rl.multiline \o ev'.d.data
           /\ rl'.pc = IF Len(ev'.d.data) = ScanBufSize
                         THEN "read" ELSE "confirm"
     /\ ev'.op = "RL_Confirm"
        => /\ rl.pc = "confirm" /\ Len(rl.multiline) > 0
           /\ IF ev'.d.err # "nil" \/ ev'.d.data \in { <<110>>, <<78>> }
                THEN /\ ~ev'.ret
                     /\ rl'.line = rl.line /\ rl'.pos = rl.pos
                     /\ rl'.multiline = <<>> /\ rl'.multisplit = rl.multisplit
                     /\ rl'.pc = "read"
              ELSE IF ev'.d.data \in { <<121>>, <<89>> }
                THEN ev'.ret /\ rl'.multiline = <<>>
              ELSE /\ ~ev'.ret
                   /\ rl'.line = rl.line /\ rl'.pos = rl.pos
                   /\ rl'.multiline = rl.multiline
                   /\ rl'.pc = "confirm"]_vars

\* A paste was rejected with "n" while the line held typed characters.
C20_Witness ==
  /\ ev.op = "RL_Confirm" /\ ev.d.data = <<110>>
  /\ Len(rl.line) > 0 /\ rl.pc = "read"

(***************************************************************************)
(* The interrupt handlers of the shell (interrupt.go).  ih holds the       *)
(* fields of Instance they read and write: the line, the pending keys      *)
(* rl.keys, the virtually inserted completion candidate rl.comp and        *)
(* whether a completer is set.                                             *)
(***************************************************************************)
\* Bound: the number of keys and handler calls in one behaviour.
MaxSteps == 5

\* Mutant: Ctrl-C never stops at cancelling the completion.
CompletionInsertedNever(comp) == FALSE

\* The test of errorCtrlC for an inserted completion (line 33).
CompletionInserted(comp) == Len(comp) > 0

\* The shell outside the handlers, whose code is not in the sources: a key
\* is typed into the line, or the completer inserts a candidate virtually.
IH_Key(c) ==
  /\ ih.nsteps < MaxSteps
  /\ ih' = [ih EXCEPT !.line = Append(@, c), !.keys = Append(@, c),
                      !.nsteps = @ + 1]
  /\ ev' = [op |-> "IH_Key", read |-> TRUE, ret |-> FALSE, val |-> <<>>,
            err |-> "nil"]
  /\ UNCHANGED <<engineVars, rl, sh>>

IH_Complete ==
  /\ ih.nsteps < MaxSteps
  /\ ih' = [ih EXCEPT !.comp = Suggestion, !.completer = TRUE,
                      !.nsteps = @ + 1]
  /\ ev' = [op |-> "IH_Complete", read |-> TRUE, ret |-> FALSE,
            val |-> <<>>, err |-> "nil"]
  /\ UNCHANGED <<engineVars, rl, sh>>

\* errorCtrlC (lines 29-49).
errorCtrlC ==
  /\ ih.nsteps < MaxSteps
  /\ IF CompletionInserted(ih.comp)
       THEN /\ ih' = [ih EXCEPT !.keys = <<>>, !.comp = <<>>,
                                !.completer = FALSE, !.nsteps = @ + 1]
            /\ ev' = [op |-> "errorCtrlC", read |-> TRUE, ret |-> FALSE,
                      val |-> <<>>, err |-> "nil"]
       ELSE /\ ih' = [ih EXCEPT !.keys = <<>>, !.nsteps = @ + 1]
            /\ ev' = [op |-> "errorCtrlC", read |-> FALSE, ret |-> TRUE,
                      val |-> ih.line, err |-> "CtrlC"]
  /\ UNCHANGED <<engineVars, rl, sh>>

\* errorEOF (lines 53-62).
errorEOF ==
  /\ ih.nsteps < MaxSteps
  /\ ih' = [ih EXCEPT !.keys = <<>>, !.nsteps = @ + 1]
  /\ ev' = [op |-> "errorEOF", read |-> FALSE, ret |-> TRUE,
            val |-> ih.line, err |-> "EOF"]
  /\ UNCHANGED <<engineVars, rl, sh>>

NextInterrupt ==
  \/ \E c \in {97, 98} : IH_Key(c)
  \/ IH_Complete
  \/ errorCtrlC
  \/ errorEOF

SpecInterrupt == Init /\ [][NextInterrupt]_vars

C21_ReplayExactLines ==
  [][ev'.op \in {"RL_Start", "RL_Confirm"} /\ ev'.ret =>
       /\ Len(rl'.results) <= Len(rl'.pasted)
       /\ rl'.results = Take(rl'.pasted, Len(rl'.results))
       /\ ev'.op = "RL_Start" => rl'.nkeys = rl.nkeys]_vars

\* C21 amended: the result of the call in which the paste is accepted is
\* the edit line with the first line of the paste inserted at the cursor
\* (that first line itself when the edit line was empty); the next k - 1
\* calls return the remaining k - 1 lines in their order, one per call,
\* none dropped or repeated, each without a read of the device; the call
\* after them reads again.
C21_ReplayAfterFirstLine ==
  [][ev'.op \in {"RL_Start", "RL_Confirm"} =>
       /\ ev'.op = "RL_Confirm" /\ ev'.ret =>
            /\ Len(rl'.pasted) >= 2
            /\ rl'.results = <<ev'.line>>
            /\ ev'.line = Take(rl.line, CursorIn(rl)) \o rl'.pasted[1]
                            \o Drop(rl.line, CursorIn(rl) + 1)
       /\ ev'.op = "RL_Start" =>
            /\ ev'.ret = (Len(rl.multisplit) > 0)
            /\ rl'.nkeys = rl.nkeys
            /\ ev'.ret =>
                 /\ rl'.pasted = rl.pasted
                 /\ rl'.results = Append(rl.results, ev'.line)
       /\ ev'.ret =>
            /\ Len(rl'.results) <= Len(rl'.pasted)
            /\ Tail(rl'.results)
                 = SubSeq(rl'.pasted, 2, Len(rl'.results))
            /\ Len(rl'.multisplit)
                 = Len(rl'.pasted) - Len(rl'.results)]_vars

\* The third and last line of a paste of three lines was replayed.
C21_Witness ==
  /\ ev.op = "RL_Start" /\ ev.ret
  /\ Len(rl.pasted) = 3 /\ Len(rl.results) = 3 /\ rl.multisplit = <<>>

\* The keys of an editing session: "bc" in one chunk, the vi commands a, r,
\* R and d, Escape, the left, right, Home and End keys, Tab, the overridden
\* key "o", the paste "\nb" and the answer "y".
EditorReads ==
  [data : { <<98, 99>>, <<97>>, <<114>>, <<82>>, <<100>>, <<charEscape>>,
            seqBackwards, seqForwards, seqHome, seqEnd, <<charTab>>,
            <<111>>, <<charLF, 98>>, <<121>> },
   err : {"nil"}]

NextEditor ==
  \/ RL_Start
  \/ \E d \in EditorReads : RL_Key(d)
  \/ \E d \in EditorReads : RL_Confirm(d)

SpecEditor == Init /\ [][NextEditor]_vars

\* The step hands the chunk of a plain key to editorInput (lines 203-213),
\* a key with an override being one whose result is forwarded.
ReachesEditorInput ==
  /\ ev'.op = "RL_Key"
  /\ KeyReachesSwitch(1..255)
  /\ \/ ev'.d.data \notin CustomKeys
     \/ ev'.custom.ForwardKey /\ ~ev'.custom.CloseReadline
  /\ KeyClass(ev'.d.data[1]) = "default"
  /\ ~(rl.modeAutoFind \/ (rl.modeTabFind /\ rl.searchMode = "CompletionFind"))

\* It does so for a key without override, the cursor within the line.
CallsEditorInput ==
  /\ ReachesEditorInput
  /\ ev'.d.data \notin CustomKeys
  /\ rl.pos <= Len(rl.line)

\* C22: in replace-once mode one editorInput call deletes one rune,
\* inserts one and leaves the mode at vi-command; in replace-many mode
\* every call deletes and inserts once per supplied rune and the mode
\* stays replace-many, until Escape moves it to vi-command; in insert mode
\* the runes are plainly inserted at the cursor and the mode is unchanged.
C22_EditorInputModes ==
  [][/\ CallsEditorInput /\ rl.modeViMode = "vimReplaceOnce" =>
          /\ rl'.modeViMode = "vimKeys"
          /\ Len(rl'.line) = (IF Len(rl.line) = 0 THEN 1 ELSE Len(rl.line))
          /\ rl'.pos \in 1..Len(rl'.line)
          /\ rl'.line[rl'.pos] = ev'.d.data[1]
          /\ \A i \in 1..Len(rl'.line) :
               i # rl'.pos => rl'.line[i] = rl.line[i]
     /\ CallsEditorInput /\ rl.modeViMode = "vimReplaceMany" =>
          /\ rl'.modeViMode = "vimReplaceMany"
          /\ Len(rl'.line) = (IF Len(rl.line) = 0 THEN 1 ELSE Len(rl.line))
          /\ rl'.pos \in 1..Len(rl'.line)
          /\ rl'.line[rl'.pos] = ev'.d.data[Len(ev'.d.data)]
          /\ \A i \in 1..Len(rl'.line) :
               \/ i <= Len(rl.line) /\ rl'.line[i] = rl.line[i]
               \/ \E j \in 1..Len(ev'.d.data) : rl'.line[i] = ev'.d.data[j]
     /\ /\ ev'.op = "RL_Key" /\ KeyReachesSwitch({charEscape})
        /\ ev'.d.data = <<charEscape>>
        /\ rl.modeViMode = "vimReplaceMany"
        /\ ~(rl.modeAutoFind \/ rl.modeTabFind \/ rl.modeTabCompletion)
        => rl'.modeViMode = "vimKeys"
     /\ CallsEditorInput /\ rl.modeViMode = "vimInsert" =>
          /\ rl'.modeViMode = "vimInsert"
          /\ rl'.line = Take(rl.line, CursorIn(rl)) \o ev'.d.data
                          \o Drop(rl.line, CursorIn(rl) + 1)
          /\ rl'.pos = rl.pos + Len(ev'.d.data)]_vars

\* Two runes were typed in one chunk in replace-many mode, over a line
\* that held runes.
C22_Witness ==
  /\ ev.op = "RL_Key" /\ ev.d.data = <<98, 99>>
  /\ rl.modeViMode = "vimReplaceMany" /\ rl.nkeys = 4 /\ Len(rl.line) = 2

\* The step is a lone Escape that reaches escapeSeq (lines 200-201).
LoneEscape ==
  /\ ev'.op = "RL_Key" /\ KeyReachesSwitch({charEscape})
  /\ ev'.d.data = <<charEscape>>

\* A search or completion sub-mode is open.
SubModeOpen == rl.modeAutoFind \/ rl.modeTabFind \/ rl.modeTabCompletion

\* The mode changes of the vi interpreter and of editorInput: a, r, R and
\* d in vi-command mode, the key after r, the key after d.
ModeCommand ==
  /\ ReachesEditorInput
  /\ \/ /\ rl.modeViMode = "vimKeys"
        /\ \/ ev'.d.data[1] = 97 /\ rl'.modeViMode = "vimInsert"
           \/ ev'.d.data[1] = 114 /\ rl'.modeViMode = "vimReplaceOnce"
           \/ ev'.d.data[1] = 82 /\ rl'.modeViMode = "vimReplaceMany"
           \/ ev'.d.data[1] = 100 /\ rl'.modeViMode = "vimDelete"
     \/ /\ rl.modeViMode \in {"vimReplaceOnce", "vimDelete"}
        /\ rl'.modeViMode = "vimKeys"

\* C23 as stated: within a session the editing mode changes only through
\* designated commands: Escape typed in insert mode always moves to
\* vi-command, only specific vi commands enter vi-delete-pending or a
\* replace mode, and no other key, paste or event changes the mode.
C23_OnlyDesignatedCommands ==
  [][ev'.op \in {"RL_Key", "RL_Confirm"} =>
       /\ LoneEscape /\ rl.modeViMode = "vimInsert" =>
            rl'.modeViMode = "vimKeys"
       /\ rl'.modeViMode # rl.modeViMode => LoneEscape \/ ModeCommand]_vars

\* C23 amended: a lone Escape moves to vi-command from every mode when no
\* search or completion sub-mode is open, and otherwise only closes the
\* sub-mode and leaves the mode alone; the mode changes besides only by
\* the vi commands that enter insert, vi-delete-pending or a replace mode,
\* by the key that ends replace-once or the pending delete, by an accepted
\* paste, which sets insert mode, and by the start of a Readline call,
\* which sets insert mode.
C23_ModeChanges ==
  [][ev'.op \in {"RL_Start", "RL_Key", "RL_Confirm"} =>
       /\ LoneEscape =>
            rl'.modeViMode = (IF SubModeOpen THEN rl.modeViMode
                              ELSE "vimKeys")
       /\ rl'.modeViMode # rl.modeViMode =>
            \/ LoneEscape
            \/ ModeCommand
            \/ ev'.op = "RL_Start" /\ rl'.modeViMode = "vimInsert"
            \/ /\ ev'.op = "RL_Confirm" /\ ev'.ret
               /\ rl'.modeViMode = "vimInsert"]_vars

\* Escape was typed in insert mode with the completion menu open: the menu
\* is closed and the mode is still insert.
C23_Witness ==
  /\ ev.op = "RL_Key" /\ ev.d.data = <<charEscape>>
  /\ rl.modeViMode = "vimInsert" /\ rl.pc = "read"

\* C24: a carriage return that arrives while the completion menu is open
\* inserts the highlighted candidate at the cursor, closes the menu and
\* does not accept the line: Readline keeps reading.  With no menu open it
\* accepts the line and Readline returns it.
C24_EnterWithMenu ==
  [][/\ ev'.op = "RL_Key" /\ KeyReachesSwitch({charCR, charLF})
     /\ ev'.d.data \notin CustomKeys
     => IF rl.modeTabCompletion
          THEN /\ ~ev'.ret /\ rl'.pc = "read"
               /\ ~rl'.modeTabCompletion
               /\ rl'.line = Take(rl.line, CursorIn(rl)) \o Suggestion
                               \o Drop(rl.line, CursorIn(rl) + 1)
          ELSE /\ ev'.ret /\ ev'.err = "nil" /\ rl'.pc = "idle"
               /\ ev'.line = rl.line /\ rl'.line = rl.line]_vars

\* Enter was typed with the menu open over a line that held a typed rune:
\* the candidate is in the line and Readline reads on.
C24_Witness ==
  /\ ev.op = "RL_Key" /\ ev.d.data = <<charCR>> /\ ~ev.ret
  /\ Len(rl.line) = 2 /\ ~rl.modeTabCompletion /\ rl.pc = "read"

\* C25: after every key the dispatcher processes from a state with the
\* cursor within the line (the arrow keys, Home, End, Escape, a key with a
\* custom override, whose result sets the line and the cursor, and the
\* kill of the whole line), the cursor satisfies 0 <= pos <= len(line).
C25_CursorWithinLine ==
  [][/\ ev'.op = "RL_Key" /\ ~ev'.ret
     /\ KeyReachesSwitch({charEscape, charCtrlU, 111})
     /\ 0 <= rl.pos /\ rl.pos <= Len(rl.line)
     => 0 <= rl'.pos /\ rl'.pos <= Len(rl'.line)]_vars

\* C26: while the mode is vi-command and the line is non-empty the cursor
\* never rests one past the end: after every key handled in vi-command
\* mode (Escape, right arrow, End, Home), coming from a state with the
\* cursor in its range, pos <= len(line) - 1.
C26_ViCursorOnRune ==
  [][/\ ev'.op = "RL_Key" /\ KeyReachesSwitch({charEscape})
     /\ ev'.d.data \in { <<charEscape>>, seqForwards, seqEnd, seqHome }
     /\ rl.pos <= Len(rl.line)
     /\ rl.modeViMode = "vimKeys" => rl.pos <= Len(rl.line) - 1
     /\ rl'.modeViMode = "vimKeys" /\ Len(rl'.line) > 0
     => rl'.pos <= Len(rl'.line) - 1]_vars

(***************************************************************************)
(* The editing commands of Shell (part_001, from line 463 on).  The line, *)
(* the cursor and the undo history are types whose code is not in the     *)
(* sources; their operations follow the words of the specification.       *)
(***************************************************************************)
\* Bounds: the number of commands in one behaviour, and the number of them
\* that are not commands of the undo history.
MaxCmds == 6
MaxEdits == 2

\* Cursor.Pos, Line.Insert, Line.CutRune and Cursor.Move: bounds-checked,
\* the cursor kept within [0, len].
Pos(st) == IF st.pos > Len(st.line) THEN Len(st.line) ELSE st.pos
LineInsert(st, r) ==
  [st EXCEPT !.line = Take(st.line, Pos(st)) \o r \o Drop(st.line, Pos(st) + 1)]
CutRune(st) ==
  IF Pos(st) >= Len(st.line) THEN st
  ELSE [st EXCEPT !.line = Take(st.line, Pos(st)) \o Drop(st.line, Pos(st) + 2)]
Move(st, n) ==
  [st EXCEPT !.pos = IF Pos(st) + n > Len(st.line) THEN Len(st.line)
                     ELSE IF Pos(st) + n < 0 THEN 0 ELSE Pos(st) + n]

\* Line.Quote: the display-safe form of a rune and its width: a control
\* character in caret notation, any other rune as it is.
Quote(r) ==
  IF r < 32 THEN [quoted |-> <<94, r + 64>>, length |-> 2]
  ELSE [quoted |-> <<r>>, length |-> 1]

\* The undo history.  Save drops the redo tail and pushes {text, cursor}
\* if it differs from the top snapshot; after a command that did not call
\* SkipSave the dispatcher saves once more; Undo and Redo move hp by one
\* and restore the snapshot there.
Snapshot(st) == <<st.line, st.pos>>
Save(st) ==
  LET kept == Take(st.items, st.hp) IN
  IF Len(kept) > 0 /\ kept[Len(kept)] = Snapshot(st)
    THEN [st EXCEPT !.items = kept]
    ELSE [st EXCEPT !.items = Append(kept, Snapshot(st)),
                    !.hp = Len(kept) + 1]
Undo(st) ==
  IF st.hp <= 1 THEN st
  ELSE [st EXCEPT !.hp = st.hp - 1, !.line = st.items[st.hp - 1][1],
                  !.pos = st.items[st.hp - 1][2]]
Redo(st) ==
  IF st.hp >= Len(st.items) THEN st
  ELSE [st EXCEPT !.hp = st.hp + 1, !.line = st.items[st.hp + 1][1],
                  !.pos = st.items[st.hp + 1][2]]

\* The history of the commands that saved: a run of n commands that
\* called Save and changed the line or the cursor, from the state orig to
\* the state final, then k calls of Undo, then k calls of Redo.
TrackEdit(pre, post) ==
  IF Snapshot(pre) = Snapshot(post) THEN NoShell.trk
  ELSE IF pre.trk.phase = "edit"
    THEN [pre.trk EXCEPT !.n = @ + 1, !.final = Snapshot(post)]
  ELSE [phase |-> "edit", orig |-> Snapshot(pre), final |-> Snapshot(post),
        n |-> 1, k |-> 0]
TrackUndo(t) ==
  IF t.phase = "edit" THEN [t EXCEPT !.phase = "undo", !.k = 1]
  ELSE IF t.phase = "undo" /\ t.k < t.n THEN [t EXCEPT !.k = @ + 1]
  ELSE NoShell.trk
TrackRedo(t) ==
  IF t.phase = "undo" /\ t.k = t.n THEN [t EXCEPT !.phase = "redo", !.k = 1]
  ELSE IF t.phase = "redo" /\ t.k < t.n THEN [t EXCEPT !.k = @ + 1]
  ELSE NoShell.trk

\* A command ends: the step is counted and the history of the saving
\* commands is brought up to date.
Ended(st, trk) == [st EXCEPT !.nsteps = sh.nsteps + 1, !.trk = trk]

\* The keys typed into the line, "x" and Ctrl-A; what is typed in
\* overwrite mode before Escape; the answers of the external editor.
ShellKeys == {120, 1}
OverwriteKeys == { <<120>>, <<1>>, <<120, 1>> }
EditorResults == [text : { <<>>, <<122>> }, err : BOOLEAN]

\* selfInsert (lines 872-890) and quotedInsert (lines 844-860): SkipSave,
\* then the quoted form of the key is inserted and the cursor moves by
\* its width.
selfInsert(key) ==
  /\ sh.done = "no" /\ sh.nsteps < MaxCmds
  /\ sh' = Ended(Move(LineInsert(sh, Quote(key).quoted), Quote(key).length),
                 NoShell.trk)
  /\ ev' = [op |-> "selfInsert", key |-> key]
  /\ UNCHANGED <<engineVars, rl, ih>>

quotedInsert(key) ==
  /\ sh.done = "no" /\ sh.nsteps < MaxEdits
  /\ sh' = Ended(Move(LineInsert(sh, Quote(key).quoted), Quote(key).length),
                 NoShell.trk)
  /\ ev' = [op |-> "quotedInsert", key |-> key]
  /\ UNCHANGED <<engineVars, rl, ih>>

\* strutil.IsBracket / IsSurround: a bracket or a quote followed by its
\* closing counterpart.
SurroundPair(a, b) ==
  <<a, b>> \in { <<40, 41>>, <<91, 93>>, <<123, 125>>, <<39, 39>>, <<34, 34>> }

\* backwardDeleteChar (lines 790-829) without a numeric argument: Save
\* (SkipSave in the vi insert keymap); at the beginning of the line
\* nothing more; else the rune behind the cursor is cut, and the rune
\* under the cursor with it when the two are a matching pair.
backwardDeleteChar(st) ==
  LET s0 == IF st.keymap = "vi-insert" THEN st ELSE Save(st)
      p == Pos(s0)
      pair == Len(s0.line) > p /\ p > 0
                /\ SurroundPair(s0.line[p], s0.line[p + 1])
      s1 == CutRune(Move(s0, -1))
  IN IF p = 0 THEN s0 ELSE IF pair THEN CutRune(s1) ELSE s1

RECURSIVE overwriteKeysNoRestore(_, _, _, _)
\* Mutant: a backspace does not put the replaced rune back.
overwriteKeysNoRestore(st, keys, cache, lineStart) ==
  IF Len(keys) = 0 THEN st
  ELSE IF keys[1] = charBackspace2
    THEN overwriteKeysNoRestore(
           IF Pos(st) > lineStart THEN backwardDeleteChar(st)
           ELSE IF Pos(st) > 0 THEN Move(st, -1) ELSE st,
           Tail(keys), cache, lineStart)
  ELSE IF Len(st.line) = Pos(st)
    THEN overwriteKeysNoRestore(Move(LineInsert(st, <<keys[1]>>), 1),
                                Tail(keys), cache, lineStart)
  ELSE overwriteKeysNoRestore(
         Move([st EXCEPT !.line[Pos(st) + 1] = keys[1]], 1), Tail(keys),
         Append(cache, st.line[Pos(st) + 1]), lineStart)

RECURSIVE overwriteKeys(_, _, _, _)
\* The loop of overwriteMode for the keys typed before Escape (lines
\* 1097-1135), cache being the replaced runes and lineStart the length of
\* the line when the mode was entered.  A backspace deletes backward
\* past lineStart and steps back before it, and puts the last replaced
\* rune back; any other key is inserted at the end of the line and
\* replaces the rune at the cursor elsewhere, the cursor moving by one.
overwriteKeys(st, keys, cache, lineStart) ==
  IF Len(keys) = 0 THEN st
  ELSE IF keys[1] = charBackspace2
    THEN LET s1 == IF Pos(st) > lineStart THEN backwardDeleteChar(st)
                   ELSE IF Pos(st) > 0 THEN Move(st, -1) ELSE st
         IN IF Len(cache) > 0 /\ Pos(s1) < lineStart
              THEN overwriteKeys(
                     [s1 EXCEPT !.line[Pos(s1) + 1] = cache[Len(cache)]],
                     Tail(keys), Take(cache, Len(cache) - 1), lineStart)
              ELSE overwriteKeys(s1, Tail(keys), cache, lineStart)
  ELSE IF Len(st.line) = Pos(st)
    THEN overwriteKeys(Move(LineInsert(st, <<keys[1]>>), 1), Tail(keys),
                       cache, lineStart)
  ELSE overwriteKeys(Move([st EXCEPT !.line[Pos(st) + 1] = keys[1]], 1),
                     Tail(keys), Append(cache, st.line[Pos(st) + 1]),
                     lineStart)

\* overwriteMode (lines 1080-1136): Save, then the loop.
overwriteMode(keys) ==
  /\ sh.done = "no" /\ sh.nsteps < MaxEdits
  /\ LET st == overwriteKeys(Save(sh), keys, <<>>, Len(sh.line)) IN
     sh' = Ended(Save(st), TrackEdit(sh, st))
  /\ ev' = [op |-> "overwriteMode", keys |-> keys]
  /\ UNCHANGED <<engineVars, rl, ih>>

RECURSIVE cutRunes(_, _)
cutRunes(st, n) == IF n = 0 THEN st ELSE cutRunes(CutRune(st), n - 1)

\* Mutant: deleteChar does not save before it cuts.
deleteCharNoSave(vii) ==
  /\ sh.done = "no" /\ sh.nsteps < MaxCmds
  /\ LET st == cutRunes(sh, vii) IN
     sh' = Ended(Save(st), TrackEdit(sh, st))
  /\ ev' = [op |-> "deleteChar", vii |-> vii]
  /\ UNCHANGED <<engineVars, rl, ih>>

\* deleteChar (lines 768-783) with the numeric argument vii: Save, then
\* the rune at the cursor is cut vii times.
deleteChar(vii) ==
  /\ sh.done = "no" /\ sh.nsteps < MaxCmds
  /\ LET st == cutRunes(Save(sh), vii) IN
     sh' = Ended(Save(st), TrackEdit(sh, st))
  /\ ev' = [op |-> "deleteChar", vii |-> vii]
  /\ UNCHANGED <<engineVars, rl, ih>>

\* transposeChars (lines 902-920).
transposeChars ==
  /\ sh.done = "no" /\ sh.nsteps < MaxEdits
  /\ LET p == Pos(sh) IN
     IF p < 2 \/ Len(sh.line) < 2
       THEN sh' = Ended(sh, NoShell.trk)
     ELSE IF p = Len(sh.line)
       THEN sh' = Ended(Save([sh EXCEPT !.line[p - 1] = sh.line[p],
                                        !.line[p] = sh.line[p - 1]]),
                        NoShell.trk)
     ELSE sh' = Ended(Save([sh EXCEPT !.line[p] = sh.line[p + 1],
                                      !.line[p + 1] = sh.line[p]]),
                      NoShell.trk)
  /\ ev' = [op |-> "transposeChars"]
  /\ UNCHANGED <<engineVars, rl, ih>>

\* undoLast (lines 1699-1701) and redo (lines 1973-1975).
undoLast ==
  /\ sh.done = "no" /\ sh.nsteps < MaxCmds
  /\ sh' = Ended(Undo(sh), TrackUndo(sh.trk))
  /\ ev' = [op |-> "undoLast"]
  /\ UNCHANGED <<engineVars, rl, ih>>

redo ==
  /\ sh.done = "no" /\ sh.nsteps < MaxCmds
  /\ sh' = Ended(Redo(sh), TrackRedo(sh.trk))
  /\ ev' = [op |-> "redo"]
  /\ UNCHANGED <<engineVars, rl, ih>>

\* The test of both editor commands for a failed edit (lines 1928, 1952).
EditFailed(buffer, res) ==
  res.err \/ (Len(res.text) = 0 /\ Len(buffer) # 0)

\* The failure branch of both commands (lines 1929-1935 and 1953-1959):
\* SkipSave, then err.Error() is called to build the hint, which panics
\* when the editor gave no error; otherwise the hint is set.
EditDiscarded(op, res) ==
  IF res.err
    THEN /\ sh' = Ended([sh EXCEPT !.hint = TRUE], NoShell.trk)
         /\ ev' = [op |-> op, res |-> res, panic |-> FALSE]
    ELSE /\ sh' = Ended([sh EXCEPT !.done = "panic"], NoShell.trk)
         /\ ev' = [op |-> op, res |-> res, panic |-> TRUE]

\* editAndExecuteCommand (lines 1923-1942): the edited text is set and the
\* line is accepted.
editAndExecuteCommand(res) ==
  /\ sh.done = "no" /\ sh.nsteps < MaxEdits
  /\ IF EditFailed(sh.line, res) THEN EditDiscarded("editAndExecuteCommand", res)
     ELSE /\ sh' = Ended([sh EXCEPT !.line = res.text, !.done = "accepted"],
                         NoShell.trk)
          /\ ev' = [op |-> "editAndExecuteCommand", res |-> res,
                    panic |-> FALSE]
  /\ UNCHANGED <<engineVars, rl, ih>>

\* editCommandLine (lines 1946-1970): the edited text is set; an emacs
\* keymap goes back to the emacs editing mode.
editCommandLine(res) ==
  /\ sh.done = "no" /\ sh.nsteps < MaxEdits
  /\ IF EditFailed(sh.line, res) THEN EditDiscarded("editCommandLine", res)
     ELSE /\ sh' = Ended(Save([sh EXCEPT !.line = res.text]), NoShell.trk)
          /\ ev' = [op |-> "editCommandLine", res |-> res, panic |-> FALSE]
  /\ UNCHANGED <<engineVars, rl, ih>>

\* The Shell starts with an empty line or with "abc" and the cursor
\* anywhere in it, in the emacs or the vi command keymap.
InitShell ==
  /\ buf = <<>> /\ matched = <<>> /\ matchedLen = 0 /\ macroKeys = <<>>
  /\ mustWait = FALSE /\ waiting = FALSE /\ reading = FALSE
  /\ keysOnce = 0 /\ cursor = 0
  /\ mutex = [w |-> "none", r |-> {}]
  /\ pc = [bg |-> "idle", main |-> "idle"]
  /\ wl = NoLocalsW /\ ml = NoLocalsM
  /\ nreads = 0 /\ ncalls = 0
  /\ ev = [op |-> "init"]
  /\ owed = <<>>
  /\ pfx = NoPrefix
  /\ rl = NoReadline /\ ih = NoInterrupt
  /\ \E line \in { <<>>, <<97, 98, 99>> } :
       \E pos \in 0..Len(line) :
         \E keymap \in {"emacs", "vi-command"} :
           sh = [NoShell EXCEPT !.line = line, !.pos = pos,
                                !.keymap = keymap]

NextShell ==
  \/ \E key \in ShellKeys : selfInsert(key)
  \/ \E key \in ShellKeys : quotedInsert(key)
  \/ \E keys \in OverwriteKeys : overwriteMode(keys)
  \/ \E vii \in {1, 2} : deleteChar(vii)
  \/ transposeChars
  \/ undoLast
  \/ redo
  \/ \E res \in EditorResults : editAndExecuteCommand(res)
  \/ \E res \in EditorResults : editCommandLine(res)

SpecShell == InitShell /\ [][NextShell]_vars

RECURSIVE QuotedRunes(_)
\* The quoted forms of the keys, one after the other.
QuotedRunes(keys) ==
  IF Len(keys) = 0 THEN <<>>
  ELSE Quote(keys[1]).quoted \o QuotedRunes(Tail(keys))

\* C27: every path that inserts a typed rune (self-insert, quoted-insert,
\* overwrite mode at the end of the line) inserts the quoted form of the
\* rune and leaves the cursor directly after the inserted text.
C27_InsertsQuotedForm ==
  [][/\ ev'.op \in {"selfInsert", "quotedInsert"}
        => /\ sh'.line = Take(sh.line, Pos(sh)) \o Quote(ev'.key).quoted
                           \o Drop(sh.line, Pos(sh) + 1)
           /\ sh'.pos = Pos(sh) + Quote(ev'.key).length
     /\ ev'.op = "overwriteMode" /\ Pos(sh) = Len(sh.line)
        => /\ sh'.line = sh.line \o QuotedRunes(ev'.keys)
           /\ sh'.pos = Len(sh'.line)]_vars

C29_FailedEditDiscarded ==
  [][/\ ev'.op \in {"editCommandLine", "editAndExecuteCommand"}
     /\ EditFailed(sh.line, ev'.res)
     => /\ ~ev'.panic
        /\ sh'.done = "no"
        /\ sh'.hint
        /\ sh'.line = sh.line /\ sh'.pos = sh.pos
        /\ sh'.keymap = sh.keymap]_vars

\* The number of times the rune c stands in the line.
Occurrences(line, c) == Cardinality({i \in 1..Len(line) : line[i] = c})

\* C30: with a character before point, transpose-chars drags it over the
\* character at point and moves point forward by one; at the end of the
\* line it transposes the two characters before point; the length and
\* the multiset of characters of the line do not change.
C30_TransposeChars ==
  [][ev'.op = "transposeChars" /\ Pos(sh) >= 1 /\ Len(sh.line) >= 2
     => LET p == Pos(sh) IN
        /\ Len(sh'.line) = Len(sh.line)
        /\ \A c \in 1..255 : Occurrences(sh'.line, c) = Occurrences(sh.line, c)
        /\ IF p = Len(sh.line)
             THEN /\ sh'.line[p - 1] = sh.line[p]
                  /\ sh'.line[p] = sh.line[p - 1]
                  /\ sh'.pos = p
             ELSE /\ sh'.line[p] = sh.line[p + 1]
                  /\ sh'.line[p + 1] = sh.line[p]
                  /\ sh'.pos = p + 1]_vars

(***************************************************************************)
(* Further commands of Shell: the mark, quoting and commenting the line,  *)
(* killing and yanking, overwrite mode with backspaces, and the lowercase *)
(* version of a key.                                                      *)
(***************************************************************************)
\* Bound: the number of these commands in one behaviour.
MaxCommands == 2

\* The numeric argument of a command: IsSet tells whether one was typed,
\* Get gives it, and gives 1 when none was typed.
Iterations ==
  {[set |-> FALSE, n |-> 1]} \cup {[set |-> TRUE, n |-> k] : k \in 0..2}

\* The Shell starts with one of these lines: empty, "abc", "#", "#a",
\* "'a" and "a", newline, "'"; the cursor is anywhere in the line.
CommandLines ==
  { <<>>, <<97, 98, 99>>, <<35>>, <<35, 97>>, <<39, 97>>, <<97, 10, 39>> }

InitCommands ==
  /\ buf = <<>> /\ matched = <<>> /\ matchedLen = 0 /\ macroKeys = <<>>
  /\ mustWait = FALSE /\ waiting = FALSE /\ reading = FALSE
  /\ keysOnce = 0 /\ cursor = 0
  /\ mutex = [w |-> "none", r |-> {}]
  /\ pc = [bg |-> "idle", main |-> "idle"]
  /\ wl = NoLocalsW /\ ml = NoLocalsM
  /\ nreads = 0 /\ ncalls = 0
  /\ ev = [op |-> "init"]
  /\ owed = <<>>
  /\ pfx = NoPrefix
  /\ rl = NoReadline /\ ih = NoInterrupt
  /\ \E line \in CommandLines :
       \E pos \in 0..Len(line) :
         sh = [NoShell EXCEPT !.line = line, !.pos = pos]

\* setMark (lines 1712-1728): with IsSet the mark is set at the cursor;
\* otherwise at Get(), unless that is beyond the last rune, and the
\* cursor is put back.
setMark(it) ==
  /\ sh.done = "no" /\ sh.nsteps < MaxCommands
  /\ sh' = Ended(IF it.set THEN [sh EXCEPT !.mark = Pos(sh)]
                 ELSE IF it.n > Len(sh.line) - 1 THEN sh
                 ELSE [sh EXCEPT !.mark = it.n, !.pos = Pos(sh)],
                 NoShell.trk)
  /\ ev' = [op |-> "setMark", it |-> it]
  /\ UNCHANGED <<engineVars, rl, ih>>

RECURSIVE quoteFirstLine(_)
\* The loop of quoteLine (lines 1188-1196): up to the first newline every
\* single quote of the line becomes a double quote.
quoteFirstLine(line) ==
  IF Len(line) = 0 \/ line[1] = 10 THEN line
  ELSE <<IF line[1] = 39 THEN 34 ELSE line[1]>> \o quoteFirstLine(Tail(line))

\* quoteLine (lines 1182-1199): a single quote is inserted at 0, the loop
\* runs over the line that now begins with it, and a single quote is
\* inserted at the end.
quoteLine ==
  /\ sh.done = "no" /\ sh.nsteps < MaxCommands
  /\ sh' = Ended(IF Len(sh.line) = 0 THEN sh
                 ELSE [sh EXCEPT !.line = quoteFirstLine(<<39>> \o sh.line)
                                            \o <<39>>],
                 NoShell.trk)
  /\ ev' = [op |-> "quoteLine"]
  /\ UNCHANGED <<engineVars, rl, ih>>

\* The value of the comment-begin variable, "#" unless configured.
commentBegin == <<35>>

\* Cursor.BeginningOfLine: the offset after the last newline before the
\* cursor, 0 on the first line.
BeginningOfLine(st) ==
  LET nl == {i \in 1..Pos(st) : st.line[i] = 10} IN
  IF nl = {} THEN 0 ELSE CHOOSE i \in nl : \A j \in nl : j <= i

\* insertComment (lines 1790-1824): without a numeric argument the
\* comment is inserted at the beginning of the line and the cursor is put
\* back; with one, the comment is cut when it fits before the end of the
\* buffer and stands at the beginning, and is inserted otherwise; then
\* the line is accepted.
insertComment(it) ==
  /\ sh.done = "no" /\ sh.nsteps < MaxCommands
  /\ LET bpos == BeginningOfLine(sh)
         epos == bpos + Len(commentBegin)
         commentFits == epos < Len(sh.line)
         inserted == Take(sh.line, bpos) \o commentBegin
                       \o Drop(sh.line, bpos + 1)
         st == IF ~it.set THEN [sh EXCEPT !.line = inserted, !.pos = Pos(sh)]
               ELSE IF commentFits
                       /\ SubSeq(sh.line, bpos + 1, epos) = commentBegin
                 THEN Move([sh EXCEPT !.line = Take(sh.line, bpos)
                                        \o Drop(sh.line, epos + 1)],
                           0 - Len(commentBegin))
               ELSE Move([sh EXCEPT !.line = inserted], Len(commentBegin))
     IN sh' = Ended([st EXCEPT !.done = "accepted"], NoShell.trk)
  /\ ev' = [op |-> "insertComment", it |-> it]
  /\ UNCHANGED <<engineVars, rl, ih>>

\* Cursor.EndOfLineAppend: the offset of the newline that ends the line
\* the cursor is on, the length of the buffer on the last line.
EndOfLineAppend(st) ==
  LET nl == {i \in Pos(st) + 1..Len(st.line) : st.line[i] = 10} IN
  IF nl = {} THEN Len(st.line)
  ELSE (CHOOSE i \in nl : \A j \in nl : i <= j) - 1

\* buffers.Active: the top slot of the kill ring, empty on an empty ring.
Active(ring) == IF Len(ring) = 0 THEN <<>> ELSE ring[1]

\* Mutant: killLine leaves the cursor where EndOfLineAppend put it.
killLineCursorAtEnd ==
  /\ sh.done = "no" /\ sh.nsteps < MaxCommands
  /\ LET st == Save(sh)
         cpos == Pos(sh)
         epos == EndOfLineAppend(sh)
     IN sh' = Ended(Save(IF Len(sh.line) = 0 THEN st
                         ELSE Move([st EXCEPT
                                !.line = Take(sh.line, cpos)
                                           \o Drop(sh.line, epos + 1),
                                !.ring = <<SubSeq(sh.line, cpos + 1, epos)>>
                                           \o sh.ring,
                                !.pos = epos], 0)),
                    NoShell.trk)
  /\ ev' = [op |-> "killLine", before |-> sh.line]
  /\ UNCHANGED <<engineVars, rl, ih>>

\* killLine (lines 1281-1297): Save; on a non-empty buffer the text from
\* the cursor to the end of its line is cut and written to the kill
\* ring, and the cursor is set back.
killLine ==
  /\ sh.done = "no" /\ sh.nsteps < MaxCommands
  /\ LET st == Save(sh)
         cpos == Pos(sh)
         epos == EndOfLineAppend(sh)
     IN sh' = Ended(Save(IF Len(sh.line) = 0 THEN st
                         ELSE [st EXCEPT
                                !.line = Take(sh.line, cpos)
                                           \o Drop(sh.line, epos + 1),
                                !.ring = <<SubSeq(sh.line, cpos + 1, epos)>>
                                           \o sh.ring,
                                !.pos = cpos]),
                    NoShell.trk)
  /\ ev' = [op |-> "killLine", before |-> sh.line]
  /\ UNCHANGED <<engineVars, rl, ih>>

RECURSIVE yankTimes(_, _, _)
\* The loop of yank (lines 1426-1429).
yankTimes(st, b, n) ==
  IF n = 0 THEN st ELSE yankTimes(Move(LineInsert(st, b), Len(b)), b, n - 1)

\* yank (lines 1421-1430): the top of the kill ring is inserted at the
\* cursor vii times, the cursor moving behind it.
yank(vii) ==
  /\ sh.done = "no" /\ sh.nsteps < MaxCommands
  /\ sh' = Ended(Save(yankTimes(sh, Active(sh.ring), vii)), NoShell.trk)
  /\ ev' = [op |-> "yank", vii |-> vii, prev |-> ev.op]
  /\ UNCHANGED <<engineVars, rl, ih>>

\* unicode.IsLower and unicode.ToLower on the ASCII letters; inputrc.IsMeta,
\* Demeta and Enmeta: the meta bit 128 of a one-byte key.
IsLower(r) == 97 <= r /\ r <= 122
ToLower(r) == IF 65 <= r /\ r <= 90 THEN r + 32 ELSE r
IsMeta(r) == 128 <= r /\ r <= 255
Demeta(r) == r - 128
Enmeta(r) == r + 128

\* The character doLowercaseVersion looks at: the keys without the escape
\* prefix, or the one meta key without its meta bit (lines 1654-1659).
InvokedWith(keys) ==
  IF Len(keys) > 1 /\ keys[1] = Esc THEN Tail(keys)
  ELSE IF Len(keys) = 1 /\ IsMeta(keys[1]) THEN <<Demeta(keys[1])>>
  ELSE keys

\* doLowercaseVersion (lines 1643-1675) with keys the result of PeekAll:
\* nothing is fed when there are no keys or the character is lowercase;
\* else the character goes through ToLower and the keys are fed back with
\* the escape prefix or the meta bit they came with.
doLowercaseVersion(keys) ==
  /\ sh.done = "no" /\ sh.nsteps < MaxCommands
  /\ LET k == InvokedWith(keys)
         fed == IF Len(keys) = 0 \/ IsLower(k[1]) THEN <<>>
                ELSE IF Len(keys) > 1 /\ keys[1] = Esc
                  THEN <<Esc, ToLower(k[1])>> \o Tail(k)
                ELSE <<Enmeta(ToLower(k[1]))>>
     IN /\ sh' = Ended([sh EXCEPT !.fed = @ \o fed], NoShell.trk)
        /\ ev' = [op |-> "doLowercaseVersion", keys |-> keys, fed |-> fed]
  /\ UNCHANGED <<engineVars, rl, ih>>

\* The keys do-lowercase-version is invoked with: ESC A, ESC a, ESC 1,
\* M-A, M-a, M-1, and none.
LowercaseInputs ==
  { <<Esc, 65>>, <<Esc, 97>>, <<Esc, 49>>, <<193>>, <<225>>, <<177>>, <<>> }

\* What is typed in overwrite mode before Escape: runes and backspaces.
OverwriteEdits ==
  { <<120, charBackspace2>>, <<1, charBackspace2>>,
    <<120, 121, charBackspace2, charBackspace2>>,
    <<120, 121, charBackspace2>>, <<charBackspace2>> }

NextCommands ==
  \/ \E it \in Iterations : setMark(it)
  \/ quoteLine
  \/ \E it \in Iterations : insertComment(it)
  \/ killLine
  \/ \E vii \in {1, 2} : yank(vii)
  \/ \E keys \in OverwriteEdits : overwriteMode(keys)
  \/ \E keys \in LowercaseInputs : doLowercaseVersion(keys)

SpecCommands == InitCommands /\ [][NextCommands]_vars

\* C31: set-mark sets the mark to the point when no numeric argument is
\* given and to the position of the numeric argument when one within the
\* line is given; the cursor stays where it was.
C31_SetMark ==
  [][ev'.op = "setMark" /\ (ev'.it.set => ev'.it.n <= Len(sh.line))
     => /\ sh'.pos = sh.pos
        /\ sh'.mark = IF ev'.it.set THEN ev'.it.n ELSE sh.pos]_vars

\* C32: quote-line leaves an empty line as it is; a non-empty line comes
\* out between two single quotes, with every single quote of its first
\* line replaced by a double quote and the rest as it was.
C32_QuoteLine ==
  [][ev'.op = "quoteLine"
     => IF Len(sh.line) = 0 THEN sh'.line = sh.line
        ELSE /\ Len(sh'.line) = Len(sh.line) + 2
             /\ sh'.line[1] = 39
             /\ sh'.line[Len(sh'.line)] = 39
             /\ SubSeq(sh'.line, 2, Len(sh.line) + 1)
                  = quoteFirstLine(sh.line)]_vars

\* C33: insert-comment without a numeric argument inserts comment-begin
\* at the beginning of the line; with one it deletes comment-begin when
\* the line begins with it and inserts it otherwise; in every case the
\* line is accepted.
C33_InsertCommentToggle ==
  [][ev'.op = "insertComment"
     => LET b == BeginningOfLine(sh)
            e == b + Len(commentBegin)
            begins == e <= Len(sh.line)
                        /\ SubSeq(sh.line, b + 1, e) = commentBegin
        IN /\ sh'.done = "accepted"
           /\ sh'.line = IF ev'.it.set /\ begins
                           THEN Take(sh.line, b) \o Drop(sh.line, e + 1)
                           ELSE Take(sh.line, b) \o commentBegin
                                  \o Drop(sh.line, b + 1)]_vars

(***************************************************************************)
(* Further properties of the key-acquisition engine (Spec).                *)
(***************************************************************************)
\* C34: a wait that has appended newly read bytes to pending clears
\* must-wait, so the WaitAvailableKeys called next with non-empty
\* pending returns at once, without a device read.
C34_MustWaitClearedByAppend ==
  [][/\ ev'.op = "W_Append" /\ Len(wl.keyBuf) > 0 => ~mustWait'
     /\ ev.op = "W_Return" /\ ~ev.eof /\ ev'.op = "W_Enter" /\ Len(buf) > 0
        => ev'.atOnce]_vars

\* The send of a cursor-position response that no GetCursorPos call can
\* receive: the background reader sends on a nil channel or on the channel
\* of a call that is not there, or ReadKey sends from the thread that
\* GetCursorPos runs on.
ResponseSendStuck ==
  \/ pc.bg = "sendCursor" /\ ~(InGetCursorPos /\ wl.ch = cursor)
  \/ pc.main = "rkSendCursor"

\* C35: a device read that holds a cursor-position response never blocks
\* WaitAvailableKeys or ReadKey for ever when no GetCursorPos call is
\* waiting for the response.
C35_ResponseNeverBlocksReader == ~ResponseSendStuck

\* C36: while a ReadKey is blocked in the receive on the one-shot channel
\* it chose because a wait was in flight, the wait does not append the
\* bytes it read to pending, and a wait that sends is sending on the
\* channel that ReadKey receives on.
C36_WaitingReadKeyGetsKey ==
  [][pc'.main = "rkRecv"
     => /\ ev'.op # "W_Append"
        /\ pc'.bg = "sendOnce" => wl'.ch = keysOnce']_vars

\* C37: when ReadKey's own device read reports EOF or yields no bytes,
\* ReadKey does not crash, records no key in matched and resets reading.
C37_ReadKeyEndOfInput ==
  [][ev'.op = "RK_Key" /\ Len(ml.buf) = 0
     => /\ ~Crashed'
        /\ matched' = matched /\ matchedLen' = matchedLen
        /\ ~reading']_vars

Backspaces(n) == [i \in 1..n |-> charBackspace2]

C40_LowercaseVersionFeedsOnce ==
  [][ev'.op = "doLowercaseVersion" /\ Len(ev'.fed) > 0
     => /\ ToLower(InvokedWith(ev'.keys)[1]) # InvokedWith(ev'.keys)[1]
        /\ ev'.fed # ev'.keys]_vars

====
